---------------------------- MODULE Spec2Model ----------------------------
(***************************************************************************)
(* FinFusion analytics core: group ledger and settlement                   *)
(* (pages/Forecasting.jsx), EWMA forecasts and rule based suggestions      *)
(* (lib/budgetAI.js), percentile budgets and the daily forecast of the     *)
(* mock API (lib/api.js).                                                  *)
(*                                                                         *)
(* Numbers.  JavaScript numbers are modelled as exact decimals.  Ledger    *)
(* money is counted in mills (1/1000 of a rupee), so that 0.01 is 10 and   *)
(* the epsilon 0.005 is 5; rounding to two decimals is a real operation.   *)
(* budgetAI amounts are integral paise.  Fractions that the code forms     *)
(* (alpha, percentages) are kept as numerator/denominator pairs.           *)
(***************************************************************************)
EXTENDS Integers, Sequences, FiniteSets, TLC

VARIABLES
    people,             \* SplitwiseModule: currentGroup.people (ids, in order)
    expenses,           \* SplitwiseModule: currentGroup.expenses
    groupBalances,      \* useMemo: computeBalancesForGroup(people, expenses)
    groupTransactions,  \* useMemo: simplifyDebts(groupBalances)
    transactions,       \* Budgets page state: the raw transaction records
    budgets,            \* Budgets page state: the budget records
    clock,              \* the calendar month new Date() falls in
    props,              \* monthsBack, alpha, referenceDate, rules of the caller
    view,               \* the last generateForecasts / generateSuggestions results
    prevView,           \* the results of the call before that
    db,                 \* mock API: the persisted db (expenses, budgets)
    apiNow,             \* mock API: the time of new Date(), in half days
    apiOut,             \* mock API: the last response
    apiCalls,           \* mock API: the number of calls that changed the db
    parseCalls,         \* parseAmountToPaise: the calls made, as [raw, paise] records
    pending,            \* mock API: the calls that were started and still wait
    finished            \* mock API: the calls that completed, in completion order

ledgerVars == <<people, expenses, groupBalances, groupTransactions>>
analyticsVars == <<transactions, budgets, clock, props, view, prevView>>

apiVars == <<db, apiNow, apiOut, apiCalls>>

parseVars == <<parseCalls>>

callVars == <<pending, finished>>

vars == <<ledgerVars, analyticsVars, apiVars, parseVars, callVars>>

----------------------------------------------------------------------------
(* Generic helpers *)

Min(a, b) == IF a <= b THEN a ELSE b
Max(a, b) == IF a >= b THEN a ELSE b
Abs(a) == IF a < 0 THEN -a ELSE a

Range(s) == {s[i] : i \in 1..Len(s)}

RECURSIVE SumSeq(_)
SumSeq(s) == IF s = <<>> THEN 0 ELSE s[1] + SumSeq(Tail(s))

\* Math.round(n / d) for d > 0: the nearest integer, ties towards +infinity.
RoundDiv(n, d) == (2 * n + d) \div (2 * d)

----------------------------------------------------------------------------
(* Ledger: pages/Forecasting.jsx *)

\* Math.round((x + Number.EPSILON) * 100) / 100 on an amount in mills.
Round2(x) == RoundDiv(x, 10) * 10

\* +(amount / n).toFixed(2) for amount >= 0 in mills.
ToFixed2Div(amount, n) == RoundDiv(amount, 10 * n) * 10

\* A balances object: entries in key insertion order; nan marks a NaN value.
Entry(id, v) == [id |-> id, nan |-> FALSE, v |-> v]
NaNEntry(id) == [id |-> id, nan |-> TRUE, v |-> 0]

HasKey(bals, id) == \E i \in 1..Len(bals) : bals[i].id = id

\* balances[id] += delta (a missing key reads undefined, and undefined + x is NaN).
AddTo(bals, id, delta) ==
    IF HasKey(bals, id)
    THEN [i \in 1..Len(bals) |->
            IF bals[i].id = id /\ ~bals[i].nan
            THEN [bals[i] EXCEPT !.v = @ + delta]
            ELSE bals[i]]
    ELSE Append(bals, NaNEntry(id))

\* The splits an expense is settled with: its own, or a synthesized equal split.
EffectiveSplits(ppl, exp) ==
    IF Len(exp.splits) > 0
    THEN exp.splits
    ELSE [i \in 1..Len(ppl) |->
            [personId |-> ppl[i],
             share |-> ToFixed2Div(exp.amount, Max(1, Len(ppl)))]]

RECURSIVE ApplySplits(_, _)
ApplySplits(bals, splits) ==
    IF splits = <<>> THEN bals
    ELSE ApplySplits(AddTo(bals, splits[1].personId, -splits[1].share), Tail(splits))

RECURSIVE ApplyExpenses(_, _, _)
ApplyExpenses(bals, ppl, exps) ==
    IF exps = <<>> THEN bals
    ELSE ApplyExpenses(
            ApplySplits(AddTo(bals, exps[1].paidBy, exps[1].amount),
                        EffectiveSplits(ppl, exps[1])),
            ppl, Tail(exps))

\* The final pass that rounds every balance to two decimals.
RoundBalances(bals) ==
    [i \in 1..Len(bals) |-> [bals[i] EXCEPT !.v = Round2(@)]]

computeBalancesForGroup(ppl, exps) ==
    RoundBalances(ApplyExpenses([i \in 1..Len(ppl) |-> Entry(ppl[i], 0)], ppl, exps))

\* Array.prototype.sort((a, b) => b.amount - a.amount): stable, descending.
RECURSIVE InsertDesc(_, _)
InsertDesc(sorted, x) ==
    IF sorted = <<>> THEN <<x>>
    ELSE IF sorted[1].amount >= x.amount
         THEN <<sorted[1]>> \o InsertDesc(Tail(sorted), x)
         ELSE <<x>> \o sorted

RECURSIVE SortDesc(_)
SortDesc(s) ==
    IF s = <<>> THEN <<>>
    ELSE InsertDesc(SortDesc(SubSeq(s, 1, Len(s) - 1)), s[Len(s)])

\* A debtor test that forgets the sign of the epsilon.
IsDebtorWithinEpsilon(e) == ~e.nan /\ e.v < 5
IsDebtor(e) == ~e.nan /\ e.v < -5
\* Mutant: the creditor test with the sign of the epsilon slipped.
IsCreditorSignSlip(e) == ~e.nan /\ ~(e.v < -5) /\ e.v > -5
IsCreditor(e) == ~e.nan /\ ~(e.v < -5) /\ e.v > 5

Debtors(bals) ==
    SortDesc(SelectSeq([i \in 1..Len(bals) |->
                          [id |-> bals[i].id, amount |-> -bals[i].v,
                           keep |-> IsDebtor(bals[i])]],
                       LAMBDA e : e.keep))

Creditors(bals) ==
    SortDesc(SelectSeq([i \in 1..Len(bals) |->
                          [id |-> bals[i].id, amount |-> bals[i].v,
                           keep |-> IsCreditor(bals[i])]],
                       LAMBDA e : e.keep))

\* One iteration of the while loop; the state is <<debtors, creditors, i, j, tx>>.
MatchAdvanceD(dAmount) == Abs(dAmount) < 10
MatchAdvanceC(cAmount) == Abs(cAmount) < 10

RECURSIVE MatchLoop(_, _, _, _, _)
MatchLoop(ds, cs, i, j, tx) ==
    IF ~(i <= Len(ds) /\ j <= Len(cs)) THEN tx
    ELSE LET transfer == Min(ds[i].amount, cs[j].amount)
             dNew == Round2(ds[i].amount - transfer)
             cNew == Round2(cs[j].amount - transfer)
         IN  MatchLoop([ds EXCEPT ![i].amount = dNew],
                       [cs EXCEPT ![j].amount = cNew],
                       IF MatchAdvanceD(dNew) THEN i + 1 ELSE i,
                       IF MatchAdvanceC(cNew) THEN j + 1 ELSE j,
                       Append(tx, [from |-> ds[i].id, to |-> cs[j].id,
                                   amount |-> Round2(transfer)]))

simplifyDebts(bals) == MatchLoop(Debtors(bals), Creditors(bals), 1, 1, <<>>)

\* The arguments as a call that wrote the synthesized equal split back onto
\* the expense would leave them.
ArgumentsWithSplitsPersisted(ppl, exps) ==
    [people |-> ppl,
     expenses |-> [i \in 1..Len(exps) |->
                     [exps[i] EXCEPT !.splits = EffectiveSplits(ppl, exps[i])]]]

\* The arguments of computeBalancesForGroup once it has returned.  The array
\* and its objects are shared with the caller; the function assigns only to
\* its locals (`splits` is rebound, never exp.splits) and to `balances`.
ArgumentsAfterCompute(ppl, exps) == [people |-> ppl, expenses |-> exps]

\* The balances object once simplifyDebts has returned: debtors and
\* creditors hold fresh {id, amount} objects, and only those are written to.
BalancesAfterSimplify(bals) == bals

----------------------------------------------------------------------------
(* lib/budgetAI.js: values *)

\* Strings that the code builds or slices are sequences of character codes.
Digit(d) == 48 + d
DashStr == <<45>>

RECURSIVE DigitsOf(_)
\* String(n) for n >= 0.
DigitsOf(n) == IF n < 10 THEN <<Digit(n)>> ELSE Append(DigitsOf(n \div 10), Digit(n % 10))

RECURSIVE PadStart(_, _, _)
\* str.padStart(len, '0')
PadStart(str, len, pad) == IF Len(str) >= len THEN str ELSE PadStart(<<pad>> \o str, len, pad)

\* `${d.getFullYear()}-${String(d.getMonth() + 1).padStart(2, '0')}`
FormatMonthKey(year, monthZeroBased) ==
    DigitsOf(year) \o DashStr \o PadStart(DigitsOf(monthZeroBased + 1), 2, Digit(0))

\* Mutant: the month wraps around but the year is not carried.
DateOfMonthNoCarry(year, monthIndex) == [year |-> year, month |-> monthIndex % 12]

\* new Date(year, monthIndex, 1): the month index may be any integer and
\* carries into the year.
DateOfMonth(year, monthIndex) ==
    [year |-> (year * 12 + monthIndex) \div 12, month |-> (year * 12 + monthIndex) % 12]

NullKey == <<>>

\* A date text: form "ym" is YYYY-MM, "ymd" is YYYY-MM-DD, "iso" another
\* text that Date parses, "bad" one that it does not, "absent" no date.
\* y and m are the year and the month number as written.
DateText(form, y, m) == [form |-> form, y |-> y, m |-> m]
NoDate == DateText("absent", 0, 0)

monthKeyFrom(value) ==
    IF value.form = "absent" THEN NullKey
    ELSE IF value.form \in {"ym", "ymd"}
         THEN PadStart(DigitsOf(value.y), 4, Digit(0)) \o DashStr
                 \o PadStart(DigitsOf(value.m), 2, Digit(0))
    ELSE IF value.form = "iso" THEN FormatMonthKey(value.y, value.m - 1)
    ELSE NullKey

\* A raw amount: kind "undef" (missing, null or ''), "num" (a number) or
\* "str" (a text).  Its value is sign * (whole + milli / 1000); dot tells
\* whether the text has a decimal point, ok whether, once currency symbols,
\* commas and blanks are stripped, it matches -?\d+(\.\d+)?.
Amt(kind, sign, whole, milli, dot, ok) ==
    [kind |-> kind, sign |-> sign, whole |-> whole, milli |-> milli, dot |-> dot, ok |-> ok]
NoAmount == Amt("undef", 1, 0, 0, FALSE, FALSE)
NumAmt(n) == Amt("num", IF n < 0 THEN -1 ELSE 1, Abs(n), 0, FALSE, TRUE)
StrAmt(sign, whole, milli, dot) == Amt("str", sign, whole, milli, dot, TRUE)
JunkAmt == Amt("str", 1, 0, 0, FALSE, FALSE)

\* Math.round of sign * (whole * k + milli * k / 1000) for k in {1, 100}.
RoundScaled(raw, k) == raw.sign * raw.whole * k + RoundDiv(raw.sign * raw.milli * k, 1000)

MajorUnitLimit == 1000000

\* A heuristic whose limit itself still counts as major units.
parseAmountToPaiseInclusiveLimit(raw) ==
    IF raw.kind = "undef" THEN 0
    ELSE IF raw.kind = "num" THEN RoundScaled(raw, 1)
    ELSE IF raw.ok
         THEN IF raw.dot \/ raw.whole <= MajorUnitLimit
              THEN RoundScaled(raw, 100)
              ELSE RoundScaled(raw, 1)
    ELSE 0

parseAmountToPaise(raw) ==
    IF raw.kind = "undef" THEN 0
    ELSE IF raw.kind = "num" THEN RoundScaled(raw, 1)
    ELSE IF raw.ok
         THEN IF raw.dot \/ raw.whole < MajorUnitLimit
              THEN RoundScaled(raw, 100)
              ELSE RoundScaled(raw, 1)
    ELSE 0

\* JavaScript truthiness of a raw amount or category.
TruthyAmt(raw) ==
    /\ raw.kind # "undef"
    /\ ~(raw.kind = "num" /\ raw.whole = 0 /\ raw.milli = 0)

\* a || b || c over the aliased fields of a record; "" stands for a missing field.
FirstCategory(names) ==
    IF \E i \in 1..Len(names) : names[i] # ""
    THEN names[CHOOSE i \in 1..Len(names) :
                 names[i] # "" /\ \A k \in 1..(i - 1) : names[k] = ""]
    ELSE ""

\* A raw transaction.  type is the set of key words its type tag contains,
\* or {"none"} when the record has no string type.
RawTx(date, amount, type, category) ==
    [date |-> date, amount |-> amount, type |-> type, category |-> category]

\* A tag rule in which expense wording wins over income wording.
TagIsExpenseFirstWins(type) ==
    IF "none" \in type THEN FALSE
    ELSE type \cap {"exp", "debit", "withdraw"} # {}

\* The type tag rule, before the sign of the amount is looked at.
TagIsExpense(type) ==
    IF "none" \in type THEN FALSE
    ELSE IF type \cap {"inc", "credit", "deposit"} # {} THEN FALSE
    ELSE type \cap {"exp", "debit", "withdraw"} # {}

normalizeOne(t) ==
    LET rawAmt == IF TruthyAmt(t.amount) THEN t.amount ELSE NumAmt(0)
        parsed == parseAmountToPaise(rawAmt)
    IN  [date |-> t.date,
         monthKey |-> monthKeyFrom(t.date),
         amountPaise |-> Abs(parsed),
         isExpense |-> IF parsed < 0 THEN TRUE ELSE TagIsExpense(t.type),
         category |-> IF FirstCategory(t.category) # ""
                      THEN FirstCategory(t.category) ELSE "Uncategorized"]

normalizeTransactions(txs) == [i \in 1..Len(txs) |-> normalizeOne(txs[i])]

\* An entry that is null, undefined or no object: every field reads as
\* missing, and no field access is made on it unguarded.
NullTx == RawTx(NoDate, NoAmount, {"none"}, <<"", "", "">>)

----------------------------------------------------------------------------
(* lib/budgetAI.js: generateForecasts *)

\* A number that may be a fraction: <<numerator, denominator>>, denominator > 0.
RECURSIVE Gcd(_, _)
Gcd(a, b) == IF b = 0 THEN a ELSE Gcd(b, a % b)

Rat(n, d) == LET g == Gcd(Abs(n), d) IN IF g = 0 THEN <<n, d>> ELSE <<n \div g, d \div g>>
RatLess(a, b) == a[1] * b[2] < b[1] * a[2]
RatRound(a) == RoundDiv(a[1], a[2])

\* Option values as passed in: present tells whether the value is a number.
NumOpt(n, d) == [present |-> TRUE, q |-> Rat(n, d)]
NoOpt == [present |-> FALSE, q |-> <<0, 1>>]

DefaultMonthsBack == 6
DefaultAlpha == Rat(4, 10)
MinAlpha == Rat(1, 100)

\* Math.max(1, Number(monthsBack) || 6); the model passes whole numbers.
EffectiveMonthsBack(monthsBack) ==
    LET n == IF monthsBack.present /\ monthsBack.q[1] # 0
             THEN monthsBack.q[1] ELSE DefaultMonthsBack
    IN  Max(1, n)

\* Number(alpha) || 0.4, then Math.min(1, Math.max(0.01, alpha)).
EffectiveAlpha(alpha) ==
    LET a == IF alpha.present /\ alpha.q[1] # 0 THEN alpha.q ELSE DefaultAlpha
        lo == IF RatLess(a, MinAlpha) THEN MinAlpha ELSE a
    IN  IF RatLess(<<1, 1>>, lo) THEN <<1, 1>> ELSE lo

\* The clock and a referenceDate are calendar dates: [year, month], month 0..11.
\* referenceDate = null is [present |-> FALSE].
RefDate(y, m) == [present |-> TRUE, year |-> y, month |-> m]
NoRefDate == [present |-> FALSE, year |-> 0, month |-> 0]

\* Mutant: the reference date is ignored and the clock is read.
NowOfClock(referenceDate, today) == today

\* const now = referenceDate ? new Date(referenceDate) : new Date()
NowOf(referenceDate, today) ==
    IF referenceDate.present
    THEN [year |-> referenceDate.year, month |-> referenceDate.month]
    ELSE today

\* The loop for (i = monthsBack - 1; i >= 0; i--) that fills months.
WindowMonths(now, monthsBack) ==
    [k \in 1..monthsBack |->
        LET d == DateOfMonth(now.year, now.month - (monthsBack - k))
        IN  FormatMonthKey(d.year, d.month)]

NextMonthKeyOf(now) ==
    LET d == DateOfMonth(now.year, now.month + 1) IN FormatMonthKey(d.year, d.month)

\* b.category || b.cat || b.name || 'Uncategorized'
BudgetCategory(b) ==
    IF FirstCategory(b.category) # "" THEN FirstCategory(b.category) ELSE "Uncategorized"

RECURSIVE Dedupe(_)
\* Array.from(new Set(seq)): first occurrences, in order.
Dedupe(seq) ==
    IF seq = <<>> THEN <<>>
    ELSE LET front == Dedupe(SubSeq(seq, 1, Len(seq) - 1))
         IN  IF seq[Len(seq)] \in Range(front) THEN front ELSE Append(front, seq[Len(seq)])

\* A category universe that may stay empty.
CategoriesOfNoDefault(txs, bs) ==
    LET given == SelectSeq(bs, LAMBDA b : ~b.isNull)
    IN  Dedupe([i \in 1..Len(given) |-> BudgetCategory(given[i])]
               \o [i \in 1..Len(txs) |-> txs[i].category])

\* The first loop over budgets skips empty entries: if (!b) return.
CategoriesOf(txs, bs) ==
    LET given == SelectSeq(bs, LAMBDA b : ~b.isNull)
        found == Dedupe([i \in 1..Len(given) |-> BudgetCategory(given[i])]
                        \o [i \in 1..Len(txs) |-> txs[i].category])
    IN  IF found = <<>> THEN <<"Uncategorized">> ELSE found

\* A membership test that lets income into the spend series.
CountsInAnyKind(tx, mk, cat) ==
    /\ tx.monthKey # NullKey
    /\ tx.monthKey = mk
    /\ tx.category = cat

\* Whether a normalized transaction is added to monthTotals[mk][cat].
CountsIn(tx, mk, cat) ==
    /\ tx.monthKey # NullKey
    /\ tx.monthKey = mk
    /\ tx.isExpense
    /\ tx.category = cat

MonthTotal(txs, mk, cat) ==
    SumSeq([i \in 1..Len(txs) |-> IF CountsIn(txs[i], mk, cat) THEN txs[i].amountPaise ELSE 0])

\* Mutant: the weights of the new value and of the old estimate swapped.
EwmaStepSwapped(alpha, value, ewma) ==
    Rat((alpha[2] - alpha[1]) * value * ewma[2] + alpha[1] * ewma[1], alpha[2] * ewma[2])

\* ewma = alpha * value + (1 - alpha) * ewma
EwmaStep(alpha, value, ewma) ==
    Rat(alpha[1] * value * ewma[2] + (alpha[2] - alpha[1]) * ewma[1], alpha[2] * ewma[2])

RECURSIVE EwmaFrom(_, _, _, _)
EwmaFrom(alpha, history, i, ewma) ==
    IF i > Len(history) THEN ewma
    ELSE EwmaFrom(alpha, history, i + 1, EwmaStep(alpha, history[i], ewma))

\* let ewma = history.length ? history[0].amount : 0; then the loop from i = 1.
Ewma(alpha, history) ==
    IF history = <<>> THEN <<0, 1>> ELSE EwmaFrom(alpha, history, 2, <<history[1], 1>>)

\* A budget record: category aliases and the four places a limit may be in.
\* monthlyLimits maps month keys to raw amounts; the three others are
\* numbers when present.  isNull marks an entry that is null or undefined.
Budget(category, monthlyLimits, limitPaise, monthlyLimit, limit) ==
    [category |-> category, monthly_limits |-> monthlyLimits,
     monthly_limit_paise |-> limitPaise, monthly_limit |-> monthlyLimit, limit |-> limit,
     isNull |-> FALSE]

NullBudget ==
    [Budget(<<"", "", "">>, {}, NoAmount, NoAmount, NoAmount) EXCEPT !.isNull = TRUE]

\* The second loop over budgets reads b.category of every entry, so an empty
\* entry raises a TypeError that nothing catches.
BudgetsLoopRaises(bs) == \E i \in 1..Len(bs) : bs[i].isNull

BudgetValue(b, nextMonthKey) ==
    IF \E e \in b.monthly_limits : e.key = nextMonthKey /\ TruthyAmt(e.amount)
    THEN parseAmountToPaise((CHOOSE e \in b.monthly_limits : e.key = nextMonthKey).amount)
    ELSE IF b.monthly_limit_paise.kind = "num" THEN RoundScaled(b.monthly_limit_paise, 1)
    ELSE IF b.monthly_limit.kind = "num" THEN parseAmountToPaise(b.monthly_limit)
    ELSE IF b.limit.kind = "num" THEN parseAmountToPaise(b.limit)
    ELSE 0

\* budgetsNextMonth[cat] = val for every budget in turn: the last one wins.
BudgetsNextMonth(bs, nextMonthKey) ==
    [cat \in {BudgetCategory(bs[i]) : i \in 1..Len(bs)} |->
        LET last == CHOOSE i \in 1..Len(bs) :
                      /\ BudgetCategory(bs[i]) = cat
                      /\ \A k \in (i + 1)..Len(bs) : BudgetCategory(bs[k]) # cat
        IN  BudgetValue(bs[last], nextMonthKey)]

\* Whether the call raises instead of returning.
generateForecastsRaises(txsIn, budgetsIn) == BudgetsLoopRaises(budgetsIn)

\* A total whose forecast is the sum of the per-category forecasts.
TotalOfSummedForecasts(txs, months, categories, alpha) ==
    [history |-> [k \in 1..Len(months) |->
                    SumSeq([c \in 1..Len(categories) |->
                              MonthTotal(txs, months[k], categories[c])])],
     forecast |-> SumSeq([c \in 1..Len(categories) |->
                            RatRound(Ewma(alpha,
                                [k \in 1..Len(months) |->
                                   MonthTotal(txs, months[k], categories[c])]))])]

\* The total series: summed per month over the categories, then smoothed.
TotalOf(txs, months, categories, alpha) ==
    LET totalHistory == [k \in 1..Len(months) |->
                            SumSeq([c \in 1..Len(categories) |->
                                      MonthTotal(txs, months[k], categories[c])])]
    IN  [history |-> totalHistory,
         forecast |-> RatRound(Ewma(alpha, totalHistory))]

\* The result of a call that returns.
generateForecasts(txsIn, budgetsIn, monthsBackIn, alphaIn, referenceDate, today) ==
    LET monthsBack == EffectiveMonthsBack(monthsBackIn)
        alpha == EffectiveAlpha(alphaIn)
        now == NowOf(referenceDate, today)
        months == WindowMonths(now, monthsBack)
        nextMonthKey == NextMonthKeyOf(now)
        txs == normalizeTransactions(txsIn)
        categories == CategoriesOf(txs, budgetsIn)
        historyOf(cat) == [k \in 1..Len(months) |-> MonthTotal(txs, months[k], cat)]
    IN  [months |-> months,
         nextMonthKey |-> nextMonthKey,
         categories |-> categories,
         perCategory |-> [cat \in Range(categories) |->
                            [history |-> historyOf(cat),
                             forecast |-> RatRound(Ewma(alpha, historyOf(cat)))]],
         total |-> TotalOf(txs, months, categories, alpha),
         budgetsNextMonth |-> BudgetsNextMonth(budgetsIn, nextMonthKey)]

----------------------------------------------------------------------------
(* lib/budgetAI.js: generateSuggestions *)

\* rules: each field is a number or missing.
Rules(overspend, cut, top, buffer) ==
    [overspendThresholdPct |-> overspend, suggestCutPct |-> cut,
     topSavingsCategories |-> top, safetyBufferPct |-> buffer]

IntOpt(n) == [present |-> TRUE, q |-> <<n, 1>>]

\* typeof rules.x === 'number' ? rules.x : fallback
RuleOr(opt, fallback) == IF opt.present THEN opt.q[1] ELSE fallback

DefaultOverspendThresholdPct == 10
DefaultSuggestCutPct == 15
DefaultTopSavingsCategories == 3
DefaultSafetyBufferPct == 5

OptsOf(rules) ==
    [overspendThresholdPct |-> RuleOr(rules.overspendThresholdPct, DefaultOverspendThresholdPct),
     suggestCutPct |-> RuleOr(rules.suggestCutPct, DefaultSuggestCutPct),
     topSavingsCategories |-> RuleOr(rules.topSavingsCategories, DefaultTopSavingsCategories),
     safetyBufferPct |-> RuleOr(rules.safetyBufferPct, DefaultSafetyBufferPct)]

\* A suggested limit that leaves the safety buffer out.
WithoutBuffer(x, pct) == x

\* Math.round(x * (1 + pct / 100))
WithBuffer(x, pct) == RoundDiv(x * (100 + pct), 100)

SuggestionId(prefix, category, nextMonthKey) ==
    [prefix |-> prefix, category |-> category, month |-> nextMonthKey]

\* The characters of the words that occur in ids: the prefixes of the rules
\* and the category names.
CharsOf(w) ==
    CASE w = "overspend" -> <<111, 118, 101, 114, 115, 112, 101, 110, 100>>
      [] w = "missing-budget" -> <<109, 105, 115, 115, 105, 110, 103, 45, 98, 117, 100, 103, 101, 116>>
      [] w = "rising" -> <<114, 105, 115, 105, 110, 103>>
      [] w = "drop" -> <<100, 114, 111, 112>>
      [] w = "save" -> <<115, 97, 118, 101>>
      [] w = "inactive" -> <<105, 110, 97, 99, 116, 105, 118, 101>>
      [] w = "summary" -> <<115, 117, 109, 109, 97, 114, 121>>
      [] w = "Food" -> <<70, 111, 111, 100>>
      [] w = "Rent" -> <<82, 101, 110, 116>>
      [] w = "Fuel" -> <<70, 117, 101, 108>>
      [] w = "Gym" -> <<71, 121, 109>>
      [] w = "Uncategorized" -> <<85, 110, 99, 97, 116, 101, 103, 111, 114, 105, 122, 101, 100>>

\* An id that leaves the prefix of the rule out.
IdTextWithoutPrefix(id) ==
    IF id.prefix = "summary" THEN id.month
    ELSE CharsOf(id.category) \o DashStr \o id.month

\* The id as the template literals build it: `prefix-category-month`, and
\* `summary-month` for the summary.
IdText(id) ==
    IF id.prefix = "summary"
    THEN CharsOf(id.prefix) \o DashStr \o id.month
    ELSE CharsOf(id.prefix) \o DashStr \o CharsOf(id.category) \o DashStr \o id.month

\* budgetsNextMonth.hasOwnProperty(category) ? Number(budgetsNextMonth[category] || 0) : 0
BudgetForCat(f, category) ==
    IF category \in DOMAIN f.budgetsNextMonth THEN f.budgetsNextMonth[category] ELSE 0

\* Math.round((forecast - budgetForCat) / Math.max(1, budgetForCat) * 100)
PctOver(forecast, budgetForCat) ==
    RoundDiv((forecast - budgetForCat) * 100, Max(1, budgetForCat))

\* Mutant: any forecast above the budget counts, the threshold is forgotten.
IsOverspendNoThreshold(forecast, budgetForCat, opts) == forecast > budgetForCat

\* The guard of the overspend rule, for a category with a positive budget.
IsOverspend(forecast, budgetForCat, opts) ==
    forecast > budgetForCat
        /\ PctOver(forecast, budgetForCat) >= opts.overspendThresholdPct

\* Rules 1 and 2 for one category: an overspend or a missing-budget suggestion.
BudgetRule(f, category, opts) ==
    LET forecast == f.perCategory[category].forecast
        budgetForCat == BudgetForCat(f, category)
        pctOver == PctOver(forecast, budgetForCat)
    IN  IF budgetForCat > 0
        THEN IF IsOverspend(forecast, budgetForCat, opts)
             THEN << [id |-> SuggestionId("overspend", category, f.nextMonthKey),
                      type |-> "overspend",
                      category |-> category,
                      recommendedLimitPaise |->
                          WithBuffer(Max(forecast, budgetForCat), opts.safetyBufferPct),
                      alternativeTargetPaise |->
                          RoundDiv(forecast * (100 - opts.suggestCutPct), 100),
                      confidence |-> Min(95, 50 + Min(50, pctOver)),
                      meta |-> [forecast |-> forecast, budgetForCat |-> budgetForCat,
                                pctOver |-> pctOver, monthsUsed |-> Len(f.months)]] >>
             ELSE <<>>
        ELSE IF forecast > 0
             THEN << [id |-> SuggestionId("missing-budget", category, f.nextMonthKey),
                      type |-> "missing_budget",
                      category |-> category,
                      recommendedLimitPaise |-> WithBuffer(forecast, opts.safetyBufferPct),
                      confidence |-> 60,
                      meta |-> [forecast |-> forecast, monthsUsed |-> Len(f.months)]] >>
             ELSE <<>>

\* Rule 3 for one category: last month against the average of the window.
TrendRule(f, category, opts) ==
    LET history == f.perCategory[category].history
        last == history[Len(history)]
        avg == RoundDiv(SumSeq(history), Len(history))
        changePct == RoundDiv((last - avg) * 100, avg)
    IN  IF Len(history) < 2 THEN <<>>
        ELSE IF avg = 0 THEN <<>>
        ELSE IF changePct >= 25
             THEN << [id |-> SuggestionId("rising", category, f.nextMonthKey),
                      type |-> "rising_trend",
                      category |-> category,
                      recommendedLimitPaise |-> WithBuffer(last, opts.safetyBufferPct),
                      confidence |-> 50,
                      meta |-> [last |-> last, avg |-> avg, changePct |-> changePct]] >>
        ELSE IF changePct <= -50
             THEN << [id |-> SuggestionId("drop", category, f.nextMonthKey),
                      type |-> "drop_trend",
                      category |-> category,
                      recommendedLimitPaise |->
                          WithBuffer(Max(last, avg), opts.safetyBufferPct),
                      confidence |-> 40,
                      meta |-> [last |-> last, avg |-> avg, changePct |-> changePct]] >>
        ELSE <<>>

\* Array.prototype.sort with a numeric key: stable; desc sorts largest first.
RECURSIVE InsertByKey(_, _, _)
InsertByKey(sorted, x, desc) ==
    IF sorted = <<>> THEN <<x>>
    ELSE IF (IF desc THEN sorted[1].key >= x.key ELSE sorted[1].key <= x.key)
         THEN <<sorted[1]>> \o InsertByKey(Tail(sorted), x, desc)
         ELSE <<x>> \o sorted

RECURSIVE SortByKey(_, _)
SortByKey(s, desc) ==
    IF s = <<>> THEN <<>>
    ELSE InsertByKey(SortByKey(SubSeq(s, 1, Len(s) - 1), desc), s[Len(s)], desc)

\* array.slice(0, n) for a whole number n.
SliceTo(s, n) ==
    IF n >= 0 THEN SubSeq(s, 1, Min(n, Len(s))) ELSE SubSeq(s, 1, Max(Len(s) + n, 0))

\* catArray, sorted by forecast, largest first.
CatArray(f) ==
    SortByKey([i \in 1..Len(f.categories) |->
                 [category |-> f.categories[i],
                  key |-> f.perCategory[f.categories[i]].forecast]], TRUE)

CutPct(forecast, topForecast, opts) ==
    Min(25, opts.suggestCutPct
              + RoundDiv(forecast * 10, Max(1, IF topForecast = 0 THEN 1 ELSE topForecast)))

\* Rule 4 for one entry of topSavings.
SavingsRule(f, c, topForecast, opts) ==
    LET cutPct == CutPct(c.key, topForecast, opts)
        cutAmount == RoundDiv(c.key * cutPct, 100)
    IN  IF cutAmount <= 0 THEN <<>>
        ELSE << [id |-> SuggestionId("save", c.category, f.nextMonthKey),
                 type |-> "savings_opportunity",
                 category |-> c.category,
                 recommendedLimitPaise |-> c.key - cutAmount,
                 confidence |-> 45,
                 meta |-> [forecast |-> c.key, cutPct |-> cutPct, cutAmount |-> cutAmount]] >>

\* Rule 5 for one category.
InactiveRule(f, category) ==
    IF SumSeq(f.perCategory[category].history) = 0
    THEN << [id |-> SuggestionId("inactive", category, f.nextMonthKey),
             type |-> "inactive",
             category |-> category,
             recommendedLimitPaise |-> 0,
             confidence |-> 35,
             meta |-> [monthsUsed |-> Len(f.months)]] >>
    ELSE <<>>

\* Sum of the expenses of the last month of the window, over all categories.
RecentTotalLastMonth(f, ts) ==
    IF f.months = <<>> THEN 0
    ELSE SumSeq([i \in 1..Len(ts) |->
                   IF /\ ts[i].monthKey # NullKey
                      /\ ts[i].monthKey = f.months[Len(f.months)]
                      /\ ts[i].isExpense
                   THEN ts[i].amountPaise ELSE 0])

\* Rule 6.
SummaryRule(f, ts, opts) ==
    << [id |-> SuggestionId("summary", "", f.nextMonthKey),
        type |-> "summary",
        category |-> "All",
        recommendedLimitPaise |-> WithBuffer(f.total.forecast, opts.safetyBufferPct),
        confidence |-> 50,
        meta |-> [totalForecast |-> f.total.forecast,
                  recentTotalLastMonth |-> RecentTotalLastMonth(f, ts)]] >>

RECURSIVE FlatMap(_, _)
\* The concatenation of Op(s[1]), Op(s[2]), ...
FlatMap(Op(_), s) == IF s = <<>> THEN <<>> ELSE Op(s[1]) \o FlatMap(Op, Tail(s))

\* A priority map whose summary entry is missing: the comparator then finds
\* no rank that keeps the summary behind the other types.
PriorityWithoutSummary(type) ==
    CASE type = "overspend" -> 1
      [] type = "missing_budget" -> 2
      [] type = "rising_trend" -> 3
      [] type = "savings_opportunity" -> 4
      [] type = "drop_trend" -> 5
      [] type = "inactive" -> 6
      [] OTHER -> 0

Priority(type) ==
    CASE type = "overspend" -> 1
      [] type = "missing_budget" -> 2
      [] type = "rising_trend" -> 3
      [] type = "savings_opportunity" -> 4
      [] type = "drop_trend" -> 5
      [] type = "inactive" -> 6
      [] type = "summary" -> 99
      [] OTHER -> 50

\* A sort by priority that is not stable: suggestions of one type come out
\* in the reverse of the order they were pushed in.
SortSuggestionsTiesReversed(suggestions) ==
    LET n == Len(suggestions)
        keyed == SortByKey([i \in 1..n |->
                              [key |-> Priority(suggestions[n + 1 - i].type),
                               s |-> suggestions[n + 1 - i]]], FALSE)
    IN  [i \in 1..n |-> keyed[i].s]

\* suggestions.sort((a, b) => priority[a.type] - priority[b.type])
SortSuggestions(suggestions) ==
    LET keyed == SortByKey([i \in 1..Len(suggestions) |->
                              [key |-> Priority(suggestions[i].type),
                               s |-> suggestions[i]]], FALSE)
    IN  [i \in 1..Len(keyed) |-> keyed[i].s]

\* The suggestions in the order the rules push them, before the sort.
EmittedSuggestions(f, ts, opts) ==
    LET catArray == CatArray(f)
        topSavings == SliceTo(SelectSeq(catArray, LAMBDA c : c.key > 0),
                              opts.topSavingsCategories)
        topForecast == IF catArray = <<>> THEN 0 ELSE catArray[1].key
        Rule12(category) == BudgetRule(f, category, opts)
        Rule3(category) == TrendRule(f, category, opts)
        Rule4(c) == SavingsRule(f, c, topForecast, opts)
        Rule5(category) == InactiveRule(f, category)
    IN  FlatMap(Rule12, f.categories)
            \o FlatMap(Rule3, f.categories)
            \o FlatMap(Rule4, topSavings)
            \o FlatMap(Rule5, f.categories)
            \o SummaryRule(f, ts, opts)

\* generateSuggestions calls generateForecasts outside any try block.
generateSuggestionsRaises(txsIn, budgetsIn) == generateForecastsRaises(txsIn, budgetsIn)

generateSuggestions(txsIn, budgetsIn, monthsBack, alpha, referenceDate, rules, today) ==
    LET f == generateForecasts(txsIn, budgetsIn, monthsBack, alpha, referenceDate, today)
        ts == normalizeTransactions(txsIn)
    IN  SortSuggestions(EmittedSuggestions(f, ts, OptsOf(rules)))

----------------------------------------------------------------------------
(* lib/api.js: helpers and computeAIBudgets *)

\* Amounts of the mock db are fractions <<numerator, denominator>> of rupees
\* in lowest terms.
\* The operands are in lowest terms; the products are taken after cancelling.
RatAdd(a, b) ==
    LET g == Gcd(a[2], b[2])
    IN  Rat(a[1] * (b[2] \div g) + b[1] * (a[2] \div g), (a[2] \div g) * b[2])
RatMul(a, b) ==
    LET g1 == Max(1, Gcd(Abs(a[1]), b[2]))
        g2 == Max(1, Gcd(Abs(b[1]), a[2]))
    IN  Rat((a[1] \div g1) * (b[1] \div g2), (a[2] \div g2) * (b[2] \div g1))
RatNeg(a) == <<-a[1], a[2]>>
RECURSIVE RatSum(_)
RatSum(s) == IF s = <<>> THEN <<0, 1>> ELSE RatAdd(RatSum(SubSeq(s, 1, Len(s) - 1)), s[Len(s)])
RatInv(b) == IF b[1] < 0 THEN <<-b[2], -b[1]>> ELSE <<b[2], b[1]>>
RatDiv(a, b) == RatMul(a, RatInv(b))
RatMax(a, b) == IF RatLess(a, b) THEN b ELSE a
RatMin(a, b) == IF RatLess(a, b) THEN a ELSE b

\* function roundTo50(v) { return Math.max(0, Math.round(v / 50) * 50); }
roundTo50(v) == Max(0, RoundDiv(v[1], 50 * v[2]) * 50)

\* function clamp(v, lo, hi) { return Math.min(hi, Math.max(lo, v)); }
clamp(v, lo, hi) == RatMin(hi, RatMax(lo, v))

\* [...arr].sort((x, y) => x - y)
RECURSIVE InsertAsc(_, _)
InsertAsc(sorted, x) ==
    IF sorted = <<>> THEN <<x>>
    ELSE IF ~RatLess(x, sorted[1]) THEN <<sorted[1]>> \o InsertAsc(Tail(sorted), x)
    ELSE <<x>> \o sorted

RECURSIVE SortAsc(_)
SortAsc(arr) ==
    IF arr = <<>> THEN <<>> ELSE InsertAsc(SortAsc(SubSeq(arr, 1, Len(arr) - 1)), arr[Len(arr)])

\* percentile without the interpolation: the sample nearest to the index.
percentileNearestRank(arr, p) ==
    IF arr = <<>> THEN <<0, 1>>
    ELSE LET a == SortAsc(arr)
             q == clamp(p, <<0, 1>>, <<1, 1>>)
         IN  a[RoundDiv((Len(a) - 1) * q[1], q[2]) + 1]

\* percentile(arr, p), with the index (a.length - 1) * p as a fraction.
percentile(arr, p) ==
    IF arr = <<>> THEN <<0, 1>>
    ELSE LET a == SortAsc(arr)
             q == clamp(p, <<0, 1>>, <<1, 1>>)
             idxNum == (Len(a) - 1) * q[1]
             lo == idxNum \div q[2]
             rest == idxNum % q[2]
         IN  IF rest = 0 THEN a[lo + 1]
             ELSE RatAdd(RatMul(a[lo + 1], Rat(q[2] - rest, q[2])),
                         RatMul(a[lo + 2], Rat(rest, q[2])))

\* A date field: present tells whether e.date is truthy, valid whether Date
\* parses it, day is the calendar day (day 0 is 2025-11-06).
DbDate(day) == [present |-> TRUE, valid |-> TRUE, day |-> day]
DbNoDate == [present |-> FALSE, valid |-> FALSE, day |-> 0]
DbBadDate == [present |-> TRUE, valid |-> FALSE, day |-> 0]

\* An amount field: nan tells whether Number(e.amount) is NaN.
DbAmount(n, d) == [nan |-> FALSE, v |-> Rat(n, d)]
DbNaN == [nan |-> TRUE, v |-> <<0, 1>>]

DbExpense(id, amount, category, date) ==
    [id |-> id, amount |-> amount, category |-> category, date |-> date]

\* (db.expenses || []).filter(e => !!e.date && !isNaN(Number(e.amount)))
DatedNumeric(exps) == SelectSeq(exps, LAMBDA e : e.date.present /\ ~e.amount.nan)

\* new Date(e.date) >= addDays(new Date(), -window)
InWindow(e, now, window) == e.date.valid /\ 2 * e.date.day >= now - 2 * window

\* e.category || 'Other'
DbCategory(e) == IF e.category = "" THEN "Other" ELSE e.category

ModeCfg(mode) ==
    CASE mode = "strict" -> [p |-> Rat(50, 100), buf |-> -10]
      [] mode = "balanced" -> [p |-> Rat(75, 100), buf |-> 12]
      [] mode = "relaxed" -> [p |-> Rat(85, 100), buf |-> 20]
      [] OTHER -> [p |-> Rat(75, 100), buf |-> 12]

DefaultCategories ==
    <<"Food", "Transport", "Shopping", "Entertainment", "Utilities", "Healthcare", "Other">>

\* floors[cat] || 400
FloorOf(cat) ==
    CASE cat = "Food" -> 1500
      [] cat = "Transport" -> 800
      [] cat = "Shopping" -> 1500
      [] cat = "Entertainment" -> 800
      [] cat = "Utilities" -> 1000
      [] cat = "Healthcare" -> 1000
      [] cat = "Other" -> 400
      [] OTHER -> 400

\* Math.max(1, Math.round((arr.length / window) * 30))
TxPerMonth(count, window) == Max(1, RoundDiv(count * 30, window))

\* expected = p * txPerMonth; expected *= (1 + modeCfg.buf)
Expected(arr, window, cfg) ==
    RatMul(RatMul(percentile(arr, cfg.p), <<TxPerMonth(Len(arr), window), 1>>),
           Rat(100 + cfg.buf, 100))

\* The limit of a category from its in-window samples.
RawLimit(cat, arr, window, cfg) ==
    roundTo50(RatMax(Expected(arr, window, cfg), <<FloorOf(cat), 1>>))

\* The order of a.category.localeCompare(b.category) over the known names.
LocaleOrder ==
    <<"Entertainment", "Food", "Fuel", "Healthcare", "Other", "Shopping",
      "Transport", "Travel", "Utilities">>
LocaleRank(cat) == CHOOSE i \in 1..Len(LocaleOrder) : LocaleOrder[i] = cat

\* A totalCap: a number or null.
Cap(n) == [present |-> TRUE, v |-> n]
NoCap == [present |-> FALSE, v |-> 0]

\* A scaling pass that is skipped: the proposals stay as they were.
ScaleToCapSkipped(items, totalCap, rawTotal) == items

\* A scaling pass that does not re-apply the floors.
ScaleToCapNoFloor(items, totalCap, rawTotal) ==
    IF totalCap.present /\ totalCap.v # 0 /\ rawTotal > 0
    THEN [i \in 1..Len(items) |->
            [items[i] EXCEPT
               !.limit = roundTo50(Rat(items[i].limit * totalCap.v, rawTotal)),
               !.scaledTo = totalCap.v]]
    ELSE items

\* The scaling pass; a cap of 0 or null leaves the items alone.
ScaleToCap(items, totalCap, rawTotal) ==
    IF totalCap.present /\ totalCap.v # 0 /\ rawTotal > 0
    THEN [i \in 1..Len(items) |->
            [items[i] EXCEPT
               !.limit = roundTo50(RatMax(<<FloorOf(items[i].category), 1>>,
                                          Rat(items[i].limit * totalCap.v, rawTotal))),
               !.scaledTo = totalCap.v]]
    ELSE items

computeAIBudgets(exps, now, window, mode, totalCap) ==
    LET inWin == SelectSeq(DatedNumeric(exps), LAMBDA e : InWindow(e, now, window))
        cats == Dedupe([i \in 1..Len(inWin) |-> DbCategory(inWin[i])])
        cfg == ModeCfg(mode)
        samples(cat) ==
            LET mine == SelectSeq(inWin, LAMBDA e : DbCategory(e) = cat)
            IN  [i \in 1..Len(mine) |-> mine[i].amount.v]
        fromHistory == [i \in 1..Len(cats) |->
                          [category |-> cats[i],
                           limit |-> RawLimit(cats[i], samples(cats[i]), window, cfg),
                           history |-> TRUE,
                           window |-> window, p |-> cfg.p, buf |-> cfg.buf,
                           scaledTo |-> 0]]
        seeded == SelectSeq([i \in 1..Len(DefaultCategories) |->
                               [category |-> DefaultCategories[i],
                                limit |-> FloorOf(DefaultCategories[i]),
                                history |-> FALSE,
                                window |-> window, p |-> cfg.p, buf |-> cfg.buf,
                                scaledTo |-> 0]],
                            LAMBDA it : it.category \notin Range(cats))
        items == fromHistory \o seeded
        rawTotal == SumSeq([i \in 1..Len(items) |-> items[i].limit])
        scaled == ScaleToCap(items, totalCap, rawTotal)
        keyed == SortByKey([i \in 1..Len(scaled) |->
                              [key |-> LocaleRank(scaled[i].category), s |-> scaled[i]]], FALSE)
    IN  [i \in 1..Len(keyed) |-> keyed[i].s]

----------------------------------------------------------------------------
(* lib/api.js: deriveAnalytics and deriveForecast *)

\* a || b on numbers
OrElse(a, b) == IF a[1] # 0 THEN a ELSE b

\* Number(e.amount) || 0
AmountOrZero(e) == IF e.amount.nan THEN <<0, 1>> ELSE e.amount.v

\* deriveAnalytics(db).total_monthly
TotalMonthlyAllRecords(exps) == RatSum([i \in 1..Len(exps) |-> AmountOrZero(exps[i])])
TotalMonthlyDatedOnly(exps) ==
    RatSum([i \in 1..Len(exps) |->
              IF exps[i].date.present THEN AmountOrZero(exps[i]) ELSE <<0, 1>>])
total_monthly(exps) == TotalMonthlyAllRecords(exps)

\* The calendar day of an instant counted in half days.
DayOf(now) == now \div 2

\* Date.getDay() of a calendar day; day 0 is Thursday 2025-11-06.
WeekdayOf(day) == (4 + day) % 7

\* Math.max(100, Math.round((total_monthly || 3000) / 30))
Baseline(exps) ==
    LET total == total_monthly(exps)
    IN  Max(100, RatRound(RatDiv(OrElse(total, <<3000, 1>>), <<30, 1>>)))

\* Array.from({ length: days }, ...) for a whole number of days.
FlatForecast(now, days, amount) ==
    [i \in 1..Max(days, 0) |-> [date |-> DayOf(now) + i - 1, predicted_amount |-> amount]]

\* byDay: the spend of each calendar day with an expense in the window.
DaysWithSpend(exps, now, window) ==
    {e.date.day : e \in {x \in Range(exps) : InWindow(x, now, window)}}
SpendOn(exps, now, window, day) ==
    RatSum([i \in 1..Len(exps) |->
              IF InWindow(exps[i], now, window) /\ exps[i].date.day = day
              THEN exps[i].amount.v ELSE <<0, 1>>])

\* The dense daily series from the first day with spend up to today.
SeriesDays(exps, now, window) ==
    LET found == DaysWithSpend(exps, now, window)
    IN  IF found = {} THEN <<>>
        ELSE LET start == CHOOSE d \in found : \A o \in found : d <= o
             IN  [i \in 1..Max(0, DayOf(now) - start + 1) |-> start + i - 1]

\* ewma(series, alpha): the last smoothed value. The step
\* alpha * x + (1 - alpha) * s is taken as s + alpha * (x - s).
RECURSIVE LastSmoothed(_, _)
LastSmoothed(series, alpha) ==
    IF Len(series) = 1 THEN series[1]
    ELSE LET s == LastSmoothed(SubSeq(series, 1, Len(series) - 1), alpha)
         IN  RatAdd(s, RatMul(alpha, RatAdd(series[Len(series)], RatNeg(s))))

\* Math.round(a * b), the product split into its whole part and the rest.
MulRound(a, b) ==
    LET whole == (a[1] \div a[2]) * b[1]
        n == (whole % b[2]) * a[2] + (a[1] % a[2]) * b[1]
        d == a[2] * b[2]
    IN  whole \div b[2] + n \div d + (IF 2 * (n % d) >= d THEN 1 ELSE 0)

\* weekdayMeans[wd]
WeekdayMean(series, daysArr, wd) ==
    LET idx == {i \in 1..Len(series) : WeekdayOf(daysArr[i]) = wd}
        sum == RatSum([i \in 1..Len(series) |-> IF i \in idx THEN series[i] ELSE <<0, 1>>])
    IN  IF idx = {} THEN <<0, 1>> ELSE RatDiv(sum, <<Cardinality(idx), 1>>)

GlobalMean(means) ==
    LET positive == Cardinality({wd \in 1..7 : means[wd][1] > 0})
    IN  RatDiv(RatSum(means), <<IF positive = 0 THEN 1 ELSE positive, 1>>)

\* m && globalMean ? clamp(m / globalMean, 0.6, 1.4) : 1
WeekdayFactor(m, globalMean) ==
    IF m[1] # 0 /\ globalMean[1] # 0 THEN clamp(RatDiv(m, globalMean), <<3, 5>>, <<7, 5>>)
    ELSE <<1, 1>>

\* series.slice(-n)
SliceLast(s, n) == SubSeq(s, Max(1, Len(s) - n + 1), Len(s))

Trend(series, globalMean) ==
    LET tail == SliceLast(series, 28)
        head14 == SliceTo(tail, 14)
        tail14 == SliceLast(tail, 14)
        first14 == RatDiv(RatSum(head14), <<Max(14, Len(head14)), 1>>)
        last14 == RatDiv(RatSum(tail14), <<Max(14, Len(tail14)), 1>>)
        lift == IF globalMean[1] # 0
                THEN RatDiv(RatAdd(last14, RatNeg(first14)),
                            RatMax(<<1, 1>>, OrElse(first14, globalMean)))
                ELSE <<0, 1>>
    IN  IF RatLess(<<2, 25>>, lift) THEN "increasing"
        ELSE IF RatLess(lift, <<-2, 25>>) THEN "decreasing"
        ELSE "stable"

deriveForecast(exps, now, days, window, alpha) ==
    LET dated == DatedNumeric(exps)
    IN  IF Len(dated) < 3
        THEN [trend |-> "insufficient_data",
              forecast |-> FlatForecast(now, days, Baseline(exps))]
        ELSE LET daysArr == SeriesDays(dated, now, window)
                 series == [i \in 1..Len(daysArr) |->
                              SpendOn(dated, now, window, daysArr[i])]
             IN  IF series = <<>>
                 THEN [trend |-> "insufficient_data", forecast |-> <<>>]
                 ELSE LET means == [wd \in 1..7 |-> WeekdayMean(series, daysArr, wd - 1)]
                          globalMean == GlobalMean(means)
                          base == OrElse(LastSmoothed(series, alpha),
                                         OrElse(globalMean, <<100, 1>>))
                          val(day) ==
                              LET factor == WeekdayFactor(means[WeekdayOf(day) + 1],
                                                          globalMean)
                              IN  IF base[1] # 0 /\ factor[1] # 0
                                  THEN MulRound(base, factor)
                                  ELSE RatRound(base)
                      IN  [trend |-> Trend(series, globalMean),
                           forecast |->
                               [i \in 1..Max(days, 0) |->
                                  [date |-> DayOf(now) + i - 1,
                                   predicted_amount |-> Max(0, val(DayOf(now) + i - 1))]]]

----------------------------------------------------------------------------
(* SplitwiseModule: the component state around the ledger functions *)

MaxExpenses == 2

PersonIds == <<"u1", "u2", "u3">>
Outsider == "u9"

\* Amounts typed into the expense form, in mills: 0.02, 100.00, 200.00.
ExpenseAmounts == {20, 100000, 200000}

\* The customSplits form state: a share per person.
CustomShares(ppl, amount) ==
    { [p \in Range(ppl) |-> 33333],
      [p \in Range(ppl) |-> IF p = ppl[1] THEN amount ELSE 0] }

\* initialGroups / sampleGroups: expenses that carry no explicit splits.
InitialExpense(ppl) ==
    [amount : ExpenseAmounts, paidBy : Range(ppl) \cup {Outsider}, splits : {<<>>}]

RECURSIVE SeqsUpTo(_, _)
SeqsUpTo(S, n) ==
    IF n = 0 THEN {<<>>}
    ELSE LET shorter == SeqsUpTo(S, n - 1)
         IN  shorter \cup {Append(s, x) : s \in {t \in shorter : Len(t) = n - 1}, x \in S}

Render(ppl, exps) ==
    /\ people' = ArgumentsAfterCompute(ppl, exps).people
    /\ expenses' = ArgumentsAfterCompute(ppl, exps).expenses
    /\ groupBalances' = BalancesAfterSimplify(computeBalancesForGroup(ppl, exps))
    /\ groupTransactions' = simplifyDebts(computeBalancesForGroup(ppl, exps))
    /\ UNCHANGED <<analyticsVars, apiVars, parseVars, callVars>>

LedgerInit ==
    \E k \in 0..Len(PersonIds) :
      LET ppl == SubSeq(PersonIds, 1, k) IN
      \E exps \in SeqsUpTo(InitialExpense(ppl), MaxExpenses) :
        /\ people = ArgumentsAfterCompute(ppl, exps).people
        /\ expenses = ArgumentsAfterCompute(ppl, exps).expenses
        /\ groupBalances = BalancesAfterSimplify(computeBalancesForGroup(ppl, exps))
        /\ groupTransactions = simplifyDebts(computeBalancesForGroup(ppl, exps))

LedgerIdle ==
    /\ people = <<>>
    /\ expenses = <<>>
    /\ groupBalances = <<>>
    /\ groupTransactions = <<>>

addPersonToCurrent ==
    /\ Len(people) < Len(PersonIds)
    /\ Render(Append(people, PersonIds[Len(people) + 1]), expenses)

\* The share the form stores for an equal split:
\* Math.round((amount / max(1, n) + Number.EPSILON) * 100) / 100.
FormShare(amount, n) == RoundDiv(amount, 10 * Max(1, n)) * 10

addExpenseToCurrent ==
    /\ Len(expenses) < MaxExpenses
    /\ \E amount \in ExpenseAmounts, paidBy \in Range(people), useCustomSplits \in BOOLEAN :
         \E customSplits \in CustomShares(people, amount) :
           LET splits ==
                 IF useCustomSplits
                 THEN [i \in 1..Len(people) |->
                         [personId |-> people[i], share |-> customSplits[people[i]]]]
                 ELSE [i \in 1..Len(people) |->
                         [personId |-> people[i],
                          share |-> FormShare(amount, Len(people))]]
           IN  Render(people,
                      Append(expenses,
                             [amount |-> amount, paidBy |-> paidBy, splits |-> splits]))

removeExpenseFromCurrent ==
    \E k \in 1..Len(expenses) :
      Render(people, [i \in 1..(Len(expenses) - 1) |->
                        IF i < k THEN expenses[i] ELSE expenses[i + 1]])

LedgerNext ==
    \/ addPersonToCurrent
    \/ addExpenseToCurrent
    \/ removeExpenseFromCurrent

----------------------------------------------------------------------------
(* The Budgets page around lib/budgetAI.js *)

MaxTx == 2
MaxTicks == 2

\* called tells whether the view holds the results of a call that returned,
\* raised whether the last render ended in an exception.
NoView == [called |-> FALSE, raised |-> FALSE]

AnalyticsIdle ==
    /\ transactions = <<>>
    /\ budgets = <<>>
    /\ clock = [year |-> 0, month |-> 0]
    /\ props = [called |-> FALSE]
    /\ view = NoView
    /\ prevView = NoView

\* The month the session starts in: December 2025.
ClockStart == [year |-> 2025, month |-> 11]

Cat(name) == <<name, "", "">>

\* Records the user may enter or import.
TxPool ==
    { RawTx(DateText("ymd", 2025, 12), NumAmt(30000), {"exp"}, Cat("Food")),
      RawTx(DateText("iso", 2026, 1), StrAmt(1, 500, 0, FALSE), {"debit"}, Cat("Food")),
      RawTx(DateText("ymd", 2026, 1), StrAmt(-1, 200, 0, FALSE), {"credit"}, <<"", "Rent", "">>),
      RawTx(DateText("ymd", 2026, 1), NumAmt(10000), {"inc"}, Cat("Food")),
      RawTx(NoDate, NumAmt(7000), {"exp"}, Cat("")),
      RawTx(DateText("ym", 2025, 11), NumAmt(10000), {"withdraw"}, Cat("Rent")),
      RawTx(DateText("ymd", 2025, 12), JunkAmt, {"exp"}, Cat("Fuel")),
      RawTx(DateText("ym", 2026, 2), StrAmt(1, 100, 500, TRUE), {"exp", "credit"}, Cat("Food")),
      RawTx(DateText("ymd", 2026, 1), NumAmt(49576), {"exp"}, Cat("Food")),
      NullTx }

NoLimits == {}

BudgetLists ==
    { <<>>,
      << Budget(Cat("Food"), NoLimits, NoAmount, NoAmount, NumAmt(40000)) >>,
      << Budget(Cat("Food"), NoLimits, NoAmount, NoAmount, NumAmt(40000)),
         Budget(Cat("Rent"),
                {[key |-> FormatMonthKey(2026, 1), amount |-> StrAmt(1, 100, 0, FALSE)]},
                NoAmount, NoAmount, NoAmount) >>,
      << Budget(Cat("Food"), NoLimits, NumAmt(10000), NoAmount, NoAmount),
         Budget(<<"", "Food", "">>, NoLimits, NoAmount, NoAmount, NumAmt(25000)) >>,
      << Budget(<<"", "", "Gym">>, NoLimits, NoAmount, NumAmt(5000), NoAmount) >>,
      << Budget(Cat("Food"), NoLimits, NoAmount, NoAmount, NumAmt(40000)), NullBudget >> }

NoRules == Rules(NoOpt, NoOpt, NoOpt, NoOpt)

Props(monthsBack, alpha, referenceDate, rules) ==
    [monthsBack |-> monthsBack, alpha |-> alpha,
     referenceDate |-> referenceDate, rules |-> rules]

PropsPool ==
    { Props(NoOpt, NoOpt, NoRefDate, NoRules),
      Props(IntOpt(1), NoOpt, NoRefDate, NoRules),
      Props(IntOpt(3), IntOpt(1), NoRefDate, NoRules),
      Props(IntOpt(2), IntOpt(-1), RefDate(2026, 0), NoRules),
      Props(IntOpt(1), NumOpt(1, 2), NoRefDate,
            Rules(IntOpt(30), IntOpt(10), IntOpt(1), IntOpt(0))),
      Props(IntOpt(0), IntOpt(3), RefDate(2025, 11), NoRules),
      Props(IntOpt(2), NumOpt(1, 3), NoRefDate, Rules(NoOpt, NoOpt, IntOpt(-1), NoOpt)),
      Props(IntOpt(2), IntOpt(0), NoRefDate, Rules(IntOpt(0), NoOpt, NoOpt, NoOpt)) }

\* One render of ForecastOverview and AIBudgetSuggestions.
ViewOf(txs, bs, p, now) ==
    IF generateSuggestionsRaises(txs, bs)
    THEN [called |-> FALSE, raised |-> TRUE,
          now |-> now, transactions |-> txs, budgets |-> bs, props |-> p]
    ELSE
    [called |-> TRUE,
     raised |-> FALSE,
     now |-> now,
     transactions |-> txs,
     budgets |-> bs,
     props |-> p,
     forecast |-> generateForecasts(txs, bs, p.monthsBack, p.alpha, p.referenceDate, now),
     suggestions |-> generateSuggestions(txs, bs, p.monthsBack, p.alpha,
                                         p.referenceDate, p.rules, now)]

AnalyticsInit ==
    /\ transactions = <<>>
    /\ budgets \in BudgetLists
    /\ clock = ClockStart
    /\ props \in PropsPool
    /\ view = ViewOf(transactions, budgets, props, clock)
    /\ prevView = NoView

\* A transaction is added and the page renders again.
addTransaction ==
    /\ Len(transactions) < MaxTx
    /\ \E t \in TxPool :
         /\ transactions' = Append(transactions, t)
         /\ view' = ViewOf(transactions', budgets, props, clock)
    /\ UNCHANGED <<budgets, clock, props, prevView, ledgerVars, apiVars, parseVars, callVars>>

\* A month goes by; nothing renders.
Tick ==
    /\ (clock.year * 12 + clock.month) - (ClockStart.year * 12 + ClockStart.month) < MaxTicks
    /\ clock' = DateOfMonth(clock.year, clock.month + 1)
    /\ UNCHANGED <<transactions, budgets, props, view, prevView, ledgerVars, apiVars, parseVars, callVars>>

\* The page renders again with unchanged state and props.
Rerender ==
    /\ view' = ViewOf(transactions, budgets, props, clock)
    /\ view' # view
    /\ UNCHANGED <<transactions, budgets, clock, props, prevView, ledgerVars, apiVars, parseVars, callVars>>

AnalyticsNext ==
    \/ addTransaction
    \/ Tick
    \/ Rerender

\* The same page, remembering the call before the last one.
MaxRepeatTx == 1

addTransactionAndRecall ==
    /\ Len(transactions) < MaxRepeatTx
    /\ \E t \in TxPool :
         /\ transactions' = Append(transactions, t)
         /\ view' = ViewOf(transactions', budgets, props, clock)
    /\ prevView' = view
    /\ UNCHANGED <<budgets, clock, props, ledgerVars, apiVars, parseVars, callVars>>

CallAgain ==
    /\ view' = ViewOf(transactions, budgets, props, clock)
    /\ prevView' = view
    /\ UNCHANGED <<transactions, budgets, clock, props, ledgerVars, apiVars, parseVars, callVars>>

RepeatNext ==
    \/ addTransactionAndRecall
    \/ Tick
    \/ CallAgain

----------------------------------------------------------------------------
(* The mock API: the persisted db and the exported calls *)

MaxApiCalls == 2
MaxApiTicks == 1

NoResponse == [kind |-> "none"]

\* db.groupExpenses: the expenses of each group, newest first; a group
\* without a key reads as [].
GroupIds == {"g1", "g2"}
NoGroupExpenses == [g \in GroupIds |-> <<>>]

ApiIdle ==
    /\ db = [expenses |-> <<>>, budgets |-> <<>>, groupExpenses |-> NoGroupExpenses]
    /\ apiNow = 0
    /\ apiOut = NoResponse
    /\ apiCalls = 0

\* initialSeed(): what loadDB stores when nothing is stored yet.
SeedExpenses ==
    << DbExpense(1, DbAmount(379, 2), "Food", DbDate(0)),
       DbExpense(2, DbAmount(720, 1), "Transport", DbDate(-1)),
       DbExpense(3, DbAmount(1299, 1), "Shopping", DbDate(-2)) >>

SeedBudgets ==
    << [category |-> "Food", limit |-> 1500],
       [category |-> "Transport", limit |-> 1200],
       [category |-> "Shopping", limit |-> 3000] >>

\* groupExpenses of the seed: two expenses of group g1.
SeedGroupExpenses ==
    [g \in GroupIds |-> IF g = "g1" THEN <<[id |-> 1, amount |-> 2600], [id |-> 2, amount |-> 840]>>
                        ELSE <<>>]

initialSeed ==
    [expenses |-> SeedExpenses, budgets |-> SeedBudgets, groupExpenses |-> SeedGroupExpenses]

\* A db that an earlier session left in localStorage: ten expenses of 100,
\* one record whose amount is not a number, and two fuel bills.
StoredDb ==
    [expenses |-> [i \in 1..10 |-> DbExpense(10 + i, DbAmount(100, 1), "Travel", DbDate(-1))]
                  \o << DbExpense(21, DbNaN, "Fuel", DbDate(-1)),
                        DbExpense(22, DbAmount(3000, 1), "Fuel", DbDate(-1)),
                        DbExpense(23, DbAmount(1000, 1), "Fuel", DbDate(0)) >>,
     budgets |-> <<>>,
     groupExpenses |-> SeedGroupExpenses]

\* loadDB(): the stored db, or the seed when nothing is stored.
ApiInit ==
    /\ db \in {initialSeed, StoredDb}
    /\ apiNow = 0
    /\ apiOut = NoResponse
    /\ apiCalls = 0

Payload(amount, category, date) == [amount |-> amount, category |-> category, date |-> date]

PayloadPool ==
    { Payload(DbAmount(1000, 1), "Food", DbDate(0)),
      Payload(DbAmount(3000, 1), "Food", DbDate(-1)),
      Payload(DbAmount(250, 1), "", DbDate(-2)),
      Payload(DbAmount(500, 1), "Travel", DbDate(-120)),
      Payload(DbAmount(6000, 1), "Food", DbNoDate),
      Payload(DbNaN, "Transport", DbBadDate) }

\* The ids of new records are fresh; the seed uses e1..e3.
FreshId == 100 + apiCalls

\* postExpense(payload)
postExpense(payload) ==
    /\ apiCalls < MaxApiCalls
    /\ LET item == DbExpense(FreshId, [nan |-> FALSE, v |-> AmountOrZero(payload)],
                             payload.category, payload.date)
       IN  /\ db' = [db EXCEPT !.expenses = <<item>> \o db.expenses]
           /\ apiOut' = [kind |-> "expense", item |-> item]
    /\ apiCalls' = apiCalls + 1
    /\ UNCHANGED <<apiNow, ledgerVars, analyticsVars, parseVars, callVars>>

\* deleteExpense(id)
deleteExpense(id) ==
    /\ apiCalls < MaxApiCalls
    /\ db' = [db EXCEPT !.expenses = SelectSeq(db.expenses, LAMBDA e : e.id # id)]
    /\ apiOut' = [kind |-> "ok"]
    /\ apiCalls' = apiCalls + 1
    /\ UNCHANGED <<apiNow, ledgerVars, analyticsVars, parseVars, callVars>>

BudgetOptions(window, mode, totalCap) ==
    [window |-> window, mode |-> mode, totalCap |-> totalCap]

BudgetOptionsPool ==
    { BudgetOptions(90, "balanced", NoCap),
      BudgetOptions(90, "strict", NoCap),
      BudgetOptions(120, "relaxed", NoCap),
      BudgetOptions(120, "lenient", NoCap),
      BudgetOptions(90, "balanced", Cap(0)),
      BudgetOptions(90, "relaxed", Cap(6000)) }

\* generateBudgets({ window, mode, totalCap })
generateBudgets(o) ==
    /\ apiCalls < MaxApiCalls
    /\ LET result == computeAIBudgets(db.expenses, apiNow, o.window, o.mode, o.totalCap)
       IN  /\ db' = [db EXCEPT !.budgets = result]
           /\ apiOut' = [kind |-> "budgets", budgets |-> result, meta |-> o,
                         expenses |-> db.expenses, now |-> apiNow]
    /\ apiCalls' = apiCalls + 1
    /\ UNCHANGED <<apiNow, ledgerVars, analyticsVars, parseVars, callVars>>

ForecastOptions(days, window, alpha) == [days |-> days, window |-> window, alpha |-> alpha]

\* getForecast passes { days: 30, window: 90, alpha: 0.35 }; deriveForecast
\* takes any number of days.
ForecastOptionsPool ==
    { ForecastOptions(30, 90, Rat(35, 100)),
      ForecastOptions(7, 90, Rat(35, 100)),
      ForecastOptions(0, 90, Rat(35, 100)) }

getForecast(o) ==
    /\ apiOut' = [kind |-> "forecast",
                  result |-> deriveForecast(db.expenses, apiNow, o.days, o.window, o.alpha),
                  options |-> o, expenses |-> db.expenses, now |-> apiNow]
    /\ UNCHANGED <<db, apiNow, apiCalls, ledgerVars, analyticsVars, parseVars, callVars>>

\* Half a day passes.
ApiTick ==
    /\ apiNow < MaxApiTicks
    /\ apiNow' = apiNow + 1
    /\ UNCHANGED <<db, apiOut, apiCalls, ledgerVars, analyticsVars, parseVars, callVars>>

ApiNext ==
    \/ \E payload \in PayloadPool : postExpense(payload)
    \/ \E id \in {db.expenses[i].id : i \in 1..Len(db.expenses)} \cup {0} : deleteExpense(id)
    \/ \E o \in BudgetOptionsPool : generateBudgets(o)
    \/ \E o \in ForecastOptionsPool : getForecast(o)
    \/ ApiTick

----------------------------------------------------------------------------
(* parseAmountToPaise as callers use it on amounts typed or imported *)

MaxParsed == 2

ParseIdle == parseCalls = <<>>

\* Whole parts on both sides of the limit of the heuristic.
WholePool == {0, 5, 999999, 1000000, 1000001, 2000000}

\* Texts that match -?\d+(\.\d+)? once symbols, commas and blanks are
\* stripped, with and without a decimal point, texts that do not, numbers,
\* and a missing amount.
AmountPool ==
    { StrAmt(sign, whole, 0, dot) : sign \in {1, -1}, whole \in WholePool, dot \in BOOLEAN }
        \cup { StrAmt(sign, whole, milli, TRUE) :
                  sign \in {1, -1}, whole \in WholePool, milli \in {250, 996} }
        \cup { JunkAmt, NoAmount, NumAmt(1000000), NumAmt(-7), Amt("num", 1, 2, 500, FALSE, TRUE) }

ParseInit == parseCalls = <<>>

ParseAmount ==
    \E raw \in AmountPool :
        /\ Len(parseCalls) < MaxParsed
        /\ parseCalls' = Append(parseCalls, [raw |-> raw, paise |-> parseAmountToPaise(raw)])
        /\ UNCHANGED <<ledgerVars, analyticsVars, apiVars, callVars>>

ParseNext == ParseAmount

----------------------------------------------------------------------------
(* The mock API under concurrently started calls *)

MaxCalls == 3

CallIdle == pending = {} /\ finished = <<>>

Call(op, payload, id, group) == [op |-> op, payload |-> payload, id |-> id, group |-> group]

NoPayload == Payload(DbAmount(0, 1), "", DbNoDate)

\* The id postExpense / postGroupExpense gives the item of call number no:
\* a random UUID, so fresh for every call.
ItemId(no) == 200 + no

\* Calls a page may start while earlier ones still wait: two posts, deletes
\* of a seed expense and of the item of the first call, a group expense,
\* and a budget run.
CallPool ==
    { Call("postExpense", Payload(DbAmount(1000, 1), "Food", DbDate(0)), 0, ""),
      Call("postExpense", Payload(DbAmount(250, 1), "", DbDate(-2)), 0, ""),
      Call("deleteExpense", NoPayload, 1, ""),
      Call("deleteExpense", NoPayload, ItemId(1), ""),
      Call("postGroupExpense", Payload(DbAmount(840, 1), "Food", DbDate(0)), 0, "g2"),
      Call("generateBudgets", NoPayload, 0, "") }

\* A db read when the call was started instead of after its delay.
LoadedAtStart(p, stored) == p.storedAtStart

\* const db = loadDB() runs after `await wait()`: it reads what is stored
\* when the call resumes.
LoadedDb(p, stored) == stored

\* The db a call saves, from the db it loaded.
SavedDb(p, d) ==
    CASE p.call.op = "postExpense" ->
           [d EXCEPT !.expenses =
               <<DbExpense(ItemId(p.no), [nan |-> FALSE, v |-> AmountOrZero(p.call.payload)],
                           p.call.payload.category, p.call.payload.date)>> \o @]
      [] p.call.op = "deleteExpense" ->
           [d EXCEPT !.expenses = SelectSeq(@, LAMBDA e : e.id # p.call.id)]
      [] p.call.op = "postGroupExpense" ->
           [d EXCEPT !.groupExpenses[p.call.group] =
               <<[id |-> ItemId(p.no), amount |-> AmountOrZero(p.call.payload)[1]]>> \o @]
      [] p.call.op = "generateBudgets" ->
           [d EXCEPT !.budgets = computeAIBudgets(d.expenses, apiNow, 90, "balanced", NoCap)]

CallInit == pending = {} /\ finished = <<>>

\* A call is made: the async function runs up to its `await wait()`.
StartCall ==
    \E c \in CallPool :
        /\ Cardinality(pending) + Len(finished) < MaxCalls
        /\ pending' = pending \cup
               {[no |-> Cardinality(pending) + Len(finished) + 1, call |-> c,
                 storedAtStart |-> db]}
        /\ UNCHANGED <<finished, ledgerVars, analyticsVars, apiVars, parseVars>>

\* The timer of a waiting call fires: loadDB, the change and saveDB run with
\* no await between them.
CompleteCall ==
    \E p \in pending :
        /\ db' = SavedDb(p, LoadedDb(p, db))
        /\ pending' = pending \ {p}
        /\ finished' = Append(finished, [no |-> p.no, call |-> p.call,
                                         saved |-> SavedDb(p, LoadedDb(p, db))])
        /\ UNCHANGED <<apiNow, apiOut, apiCalls, ledgerVars, analyticsVars, parseVars>>

CallNext == StartCall \/ CompleteCall

----------------------------------------------------------------------------
(* Specifications *)

\* The group ledger of SplitwiseModule.
Init == LedgerInit /\ AnalyticsIdle /\ ApiIdle /\ ParseIdle /\ CallIdle
Spec == Init /\ [][LedgerNext]_vars

\* The Budgets page: forecasts and suggestions.
ForecastInit == LedgerIdle /\ AnalyticsInit /\ ApiIdle /\ ParseIdle /\ CallIdle
ForecastSpec == ForecastInit /\ [][AnalyticsNext]_vars

\* The Budgets page, two successive calls of generateSuggestions.
RepeatSpec == ForecastInit /\ [][RepeatNext]_vars

\* The mock API.
ApiSpecInit == LedgerIdle /\ AnalyticsIdle /\ ApiInit /\ ParseIdle /\ CallIdle
ApiSpec == ApiSpecInit /\ [][ApiNext]_vars

\* parseAmountToPaise alone, applied to texts and numbers around its limit.
ParseSpecInit == LedgerIdle /\ AnalyticsIdle /\ ApiIdle /\ ParseInit /\ CallIdle
ParseSpec == ParseSpecInit /\ [][ParseNext]_vars

\* The mock API with calls in flight.
CallSpecInit == LedgerIdle /\ AnalyticsIdle /\ ApiInit /\ ParseIdle /\ CallInit
CallSpec == CallSpecInit /\ [][CallNext]_vars

----------------------------------------------------------------------------
(* Ledger claims *)

Payers(exps) == {exps[i].paidBy : i \in 1..Len(exps)}
NoNaN(bals) == \A i \in 1..Len(bals) : ~bals[i].nan
BalanceSum(bals) == SumSeq([i \in 1..Len(bals) |-> bals[i].v])

\* The group has at least one person and every expense is paid by a member.
WellFormedGroup == Len(people) >= 1 /\ Payers(expenses) \subseteq Range(people)

\* C1: for a group with at least one person whose expenses are all paid by
\* members, the balances of computeBalancesForGroup sum to 0 within 0.01.
C1_BalanceConservation ==
    WellFormedGroup => Abs(BalanceSum(groupBalances)) <= 10

\* What a person's balance is once every payment of tx has been made:
\* the payer's balance rises by the amount, the payee's falls by it.
AfterPayments(e, tx) ==
    e.v + SumSeq([k \in 1..Len(tx) |-> IF tx[k].from = e.id THEN tx[k].amount ELSE 0])
        - SumSeq([k \in 1..Len(tx) |-> IF tx[k].to = e.id THEN tx[k].amount ELSE 0])

\* C2: applying the payments of simplifyDebts to the balances it was given
\* leaves every person's balance within 0.01 of zero.
C2_SettlementClearsBalances ==
    WellFormedGroup =>
        \A i \in 1..Len(groupBalances) :
            Abs(AfterPayments(groupBalances[i], groupTransactions)) <= 10

DebtorCount(bals) == Cardinality({i \in 1..Len(bals) : ~bals[i].nan /\ bals[i].v < -5})
CreditorCount(bals) == Cardinality({i \in 1..Len(bals) : ~bals[i].nan /\ bals[i].v > 5})

\* C3: simplifyDebts returns at most max(0, debtorCount + creditorCount - 1)
\* payments, debtors being the balances below -0.005 and creditors those
\* above 0.005.
C3_SettlementBound ==
    Len(groupTransactions)
        <= Max(0, DebtorCount(groupBalances) + CreditorCount(groupBalances) - 1)

\* C3 witness: a settlement of two payments that meets the bound exactly.
C3_Witness ==
    /\ Len(groupTransactions) = 2
    /\ DebtorCount(groupBalances) + CreditorCount(groupBalances) = 3

\* The single equal-split expense of the C8 scenario, and its rounded share.
SingleEqualSplit ==
    /\ Len(people) >= 2
    /\ Len(expenses) = 1
    /\ expenses[1].splits = <<>>
    /\ expenses[1].paidBy \in Range(people)
    /\ RoundDiv(expenses[1].amount, 10 * Len(people)) >= 1

\* C8: after one expense of amount a paid by P with no explicit splits in a
\* group of n >= 2, P's balance is a - round2(a/n), every other member's is
\* -round2(a/n), and the settlement is exactly one payment of round2(a/n)
\* from each other member to P.
C8_EqualSplitScenario ==
    SingleEqualSplit =>
        LET a == expenses[1].amount
            P == expenses[1].paidBy
            r == RoundDiv(a, 10 * Len(people)) * 10
        IN  /\ \A i \in 1..Len(groupBalances) :
                 groupBalances[i] =
                    Entry(people[i], IF people[i] = P THEN a - r ELSE -r)
            /\ Len(groupTransactions) = Len(people) - 1
            /\ \A m \in Range(people) \ {P} :
                 \E k \in 1..Len(groupTransactions) :
                    groupTransactions[k] = [from |-> m, to |-> P, amount |-> r]

----------------------------------------------------------------------------
(* Forecast and suggestion claims *)

SameArguments(a, b) ==
    /\ a.transactions = b.transactions
    /\ a.budgets = b.budgets
    /\ a.props = b.props

KeyYear(key) ==
    (key[1] - 48) * 1000 + (key[2] - 48) * 100 + (key[3] - 48) * 10 + (key[4] - 48)
KeyMonth(key) == (key[6] - 48) * 10 + (key[7] - 48)
KeyIndex(key) == KeyYear(key) * 12 + KeyMonth(key) - 1
IsMonthKey(key) ==
    /\ Len(key) = 7
    /\ \A i \in {1, 2, 3, 4, 6, 7} : key[i] \in 48..57
    /\ key[5] = 45
    /\ KeyMonth(key) \in 1..12

\* String comparison a < b, by character code.
StrLess(a, b) ==
    \E i \in 1..Min(Len(a), Len(b)) + 1 :
        /\ \A k \in 1..(i - 1) : a[k] = b[k]
        /\ IF i > Len(a) THEN i <= Len(b)
           ELSE i <= Len(b) /\ a[i] < b[i]

\* C5: months holds exactly N month keys, N the effective monthsBack; they
\* are consecutive calendar months in strictly increasing order, the last is
\* the month of the reference date and the month before nextMonthKey.
C5_WindowInvariant ==
    view.called =>
        LET f == view.forecast
            now == NowOf(view.props.referenceDate, view.now)
            n == EffectiveMonthsBack(view.props.monthsBack)
        IN  /\ n >= 1
            /\ Len(f.months) = n
            /\ \A k \in 1..n : IsMonthKey(f.months[k])
            /\ \A k \in 1..(n - 1) :
                 /\ KeyIndex(f.months[k + 1]) = KeyIndex(f.months[k]) + 1
                 /\ StrLess(f.months[k], f.months[k + 1])
            /\ KeyIndex(f.months[n]) = now.year * 12 + now.month
            /\ IsMonthKey(f.nextMonthKey)
            /\ KeyIndex(f.nextMonthKey) = KeyIndex(f.months[n]) + 1
            /\ StrLess(f.months[n], f.nextMonthKey)

\* C5 witness: a window of several months that crosses a year boundary.
C5_Witness ==
    /\ view.called
    /\ Len(view.forecast.months) >= 3
    /\ KeyYear(view.forecast.months[1]) < KeyYear(view.forecast.months[Len(view.forecast.months)])

Last(seq) == seq[Len(seq)]

\* C6: with alpha = 1, or with a window of one month, every category's
\* forecast and the total forecast equal the last value of their history.
C6_EwmaBoundary ==
    (view.called /\ (EffectiveAlpha(view.props.alpha) = <<1, 1>>
                        \/ EffectiveMonthsBack(view.props.monthsBack) = 1))
        => LET f == view.forecast
           IN  /\ \A c \in DOMAIN f.perCategory :
                    f.perCategory[c].forecast = Last(f.perCategory[c].history)
               /\ f.total.forecast = Last(f.total.history)

\* C6 witness: alpha = 1 over several months whose amounts differ, and a
\* one-month window with another alpha.
C6_Witness ==
    /\ view.called
    /\ EffectiveAlpha(view.props.alpha) = <<1, 1>>
    /\ \E c \in DOMAIN view.forecast.perCategory :
         LET h == view.forecast.perCategory[c].history
         IN  Len(h) >= 2 /\ h[Len(h) - 1] > 0 /\ Last(h) > 0 /\ h[Len(h) - 1] # Last(h)

OverspendFor(suggestions, c) ==
    {i \in 1..Len(suggestions) :
        suggestions[i].type = "overspend" /\ suggestions[i].category = c}

\* The condition of C7, from the forecast F and the next-month budget B.
MeetsOverspend(F, B, thresholdPct) ==
    B > 0 /\ F > B /\ RoundDiv((F - B) * 100, B) >= thresholdPct

----------------------------------------------------------------------------
(* Mock API claims *)

\* The records of a category that count as samples: a date, a numeric
\* amount, and a day inside the window that ends now.
SampleIndexes(exps, now, window, cat) ==
    {i \in 1..Len(exps) :
        /\ exps[i].date.present /\ exps[i].date.valid /\ ~exps[i].amount.nan
        /\ 2 * exps[i].date.day >= now - 2 * window
        /\ (IF exps[i].category = "" THEN "Other" ELSE exps[i].category) = cat}

\* The k-th smallest amount among the records idx.
OrderStatistic(exps, idx, k) ==
    LET v(i) == exps[i].amount.v
        at == CHOOSE i \in idx :
                /\ Cardinality({j \in idx : RatLess(v(j), v(i))}) < k
                /\ k <= Cardinality({j \in idx : ~RatLess(v(i), v(j))})
    IN  v(at)

\* The percentile at pct percent, interpolated between order statistics.
InterpolatedPercentile(exps, idx, pct) ==
    LET rank == (Cardinality(idx) - 1) * pct
        lower == OrderStatistic(exps, idx, rank \div 100 + 1)
    IN  IF rank % 100 = 0 THEN lower
        ELSE LET upper == OrderStatistic(exps, idx, rank \div 100 + 2)
             IN  RatAdd(lower, RatMul(Rat(rank % 100, 100), RatAdd(upper, RatNeg(lower))))

ModePercentile(mode) ==
    CASE mode = "strict" -> 50 [] mode = "balanced" -> 75 [] mode = "relaxed" -> 85

ModeBuffer(mode) ==
    CASE mode = "strict" -> -10 [] mode = "balanced" -> 12 [] mode = "relaxed" -> 20

\* P * max(1, round(sampleCount / window * 30)) * (1 + buffer)
PreFloor(exps, idx, window, mode) ==
    RatMul(RatMul(InterpolatedPercentile(exps, idx, ModePercentile(mode)),
                  <<Max(1, RoundDiv(Cardinality(idx) * 30, window)), 1>>),
           Rat(100 + ModeBuffer(mode), 100))

NearestFifty(v) == Max(0, 50 * RatRound(RatDiv(v, <<50, 1>>)))

LimitsFor(items, cat) == {items[i].limit : i \in {j \in 1..Len(items) : items[j].category = cat}}

TenOfHundred(exps, idx) ==
    Cardinality(idx) = 10 /\ \A i \in idx : exps[i].amount.v = <<100, 1>>

SampledCategories(exps) ==
    {IF exps[i].category = "" THEN "Other" ELSE exps[i].category : i \in 1..Len(exps)}

\* C9: without a totalCap and in one of the three modes, the proposal of
\* every category with in-window samples is
\* roundTo50(max(P * max(1, round(count / window * 30)) * (1 + buffer), floor))
\* with P the interpolated percentile of the mode; ten samples of 100 in a
\* 90-day window in balanced mode have the pre-floor value 100 * 3 * 1.12.
C9_PercentileBudget ==
    (/\ apiOut.kind = "budgets"
     /\ ~apiOut.meta.totalCap.present
     /\ apiOut.meta.mode \in {"strict", "balanced", "relaxed"})
    => \A cat \in SampledCategories(apiOut.expenses) :
         LET idx == SampleIndexes(apiOut.expenses, apiOut.now, apiOut.meta.window, cat)
             pre == PreFloor(apiOut.expenses, idx, apiOut.meta.window, apiOut.meta.mode)
         IN  idx # {} =>
               /\ Cardinality({j \in 1..Len(apiOut.budgets) :
                                  apiOut.budgets[j].category = cat}) = 1
               /\ LimitsFor(apiOut.budgets, cat)
                    = {NearestFifty(RatMax(pre, <<FloorOf(cat), 1>>))}
               /\ (/\ TenOfHundred(apiOut.expenses, idx)
                   /\ apiOut.meta.window = 90
                   /\ apiOut.meta.mode = "balanced")
                  => /\ pre = Rat(100 * 3 * 112, 100)
                     /\ Expected([i \in 1..10 |-> <<100, 1>>], 90, ModeCfg("balanced")) = pre

\* A balanced 90-day run over ten samples of 100 in one category and, in
\* another, two samples whose interpolated percentile clears the floor.
C9_Witness ==
    /\ apiOut.kind = "budgets"
    /\ ~apiOut.meta.totalCap.present
    /\ apiOut.meta.mode = "balanced"
    /\ apiOut.meta.window = 90
    /\ \E cat \in SampledCategories(apiOut.expenses) :
         TenOfHundred(apiOut.expenses,
                      SampleIndexes(apiOut.expenses, apiOut.now, 90, cat))
    /\ \E cat \in SampledCategories(apiOut.expenses) :
         LET idx == SampleIndexes(apiOut.expenses, apiOut.now, 90, cat)
         IN  /\ Cardinality(idx) = 2
             /\ LimitsFor(apiOut.budgets, cat) = {2800}
             /\ FloorOf(cat) < 2800

\* The records that count as history: a date and a numeric amount.
ValidRecordCount(exps) ==
    Cardinality({i \in 1..Len(exps) : exps[i].date.present /\ ~exps[i].amount.nan})

\* The total spend of the db: every record with a numeric amount.
TotalSpend(exps) ==
    RatSum([i \in 1..Len(exps) |-> IF exps[i].amount.nan THEN <<0, 1>> ELSE exps[i].amount.v])

FlatBaseline(exps) ==
    LET total == IF TotalSpend(exps) = <<0, 1>> THEN <<3000, 1>> ELSE TotalSpend(exps)
    IN  Max(100, RatRound(RatDiv(total, <<30, 1>>)))

----------------------------------------------------------------------------
(* Degradation and configuration claims *)

\* C11: generateForecasts and generateSuggestions never raise and always
\* return a well-formed result, whatever the transactions and budgets arrays
\* hold, null and malformed entries included.
C11_NeverRaises ==
    /\ ~view.raised
    /\ view.called
    /\ Len(view.forecast.months) >= 1
    /\ Len(view.suggestions) >= 1

UnknownPayer == \E i \in 1..Len(expenses) : expenses[i].paidBy \notin Range(people)

\* The call returned a balances map: an entry for every member of the group.
ReturnsBalances == \A i \in 1..Len(people) : HasKey(groupBalances, people[i])

\* C12: when an expense names a payer who is not a member of the group,
\* computeBalancesForGroup surfaces an error instead of returning a balances
\* map.
C12_UnknownPayerIsAnError == UnknownPayer => ~ReturnsBalances

\* The nearest value in [0.01, 1] to a numeric alpha, 0.4 for anything else.
ClaimedAlpha(alpha) ==
    IF ~alpha.present THEN <<4, 10>>
    ELSE IF RatLess(alpha.q, <<1, 100>>) THEN <<1, 100>>
    ELSE IF RatLess(<<1, 1>>, alpha.q) THEN <<1, 1>>
    ELSE alpha.q

\* The nearest whole number >= 1 to a numeric monthsBack, 6 for anything else.
ClaimedMonthsBack(monthsBack) ==
    IF ~monthsBack.present THEN 6
    ELSE IF monthsBack.q[1] < 1 THEN 1 ELSE monthsBack.q[1]

\* C13: every numeric alpha is used as the nearest value in [0.01, 1] and
\* every numeric monthsBack as the nearest value >= 1, 0 and negatives
\* included; only non-numeric values fall back to 0.4 and 6.
C13_ClampedConfiguration ==
    view.called =>
        LET claimed == generateForecasts(view.transactions, view.budgets,
                           IntOpt(ClaimedMonthsBack(view.props.monthsBack)),
                           [present |-> TRUE, q |-> ClaimedAlpha(view.props.alpha)],
                           view.props.referenceDate, view.now)
        IN  /\ Len(view.forecast.months) = ClaimedMonthsBack(view.props.monthsBack)
            /\ view.forecast.perCategory = claimed.perCategory
            /\ view.forecast.total = claimed.total

ExpenseWording == {"exp", "debit", "withdraw"}
IncomeWording == {"inc", "credit", "deposit"}

\* The claimed kind of a raw record: its parsed amount is negative, or its
\* type tag has expense wording and no income wording.
ClaimedIsExpense(t) ==
    \/ parseAmountToPaise(t.amount) < 0
    \/ /\ "none" \notin t.type
       /\ t.type \cap ExpenseWording # {}
       /\ t.type \cap IncomeWording = {}

\* C14: normalizeTransactions marks a record as an expense whenever its
\* parsed amount is negative, whatever its type tag; otherwise iff the tag has
\* expense/debit/withdraw wording and no income/credit/deposit wording; a
\* record with a non-negative amount and no type tag is non-expense.
C14_ExpenseKind ==
    \A i \in 1..Len(transactions) :
        LET n == normalizeTransactions(transactions)[i]
        IN  /\ n.isExpense = ClaimedIsExpense(transactions[i])
            /\ n.amountPaise >= 0

\* A negative amount tagged as income next to a record with both wordings.
C14_Witness ==
    /\ \E i \in 1..Len(transactions) :
           /\ parseAmountToPaise(transactions[i].amount) < 0
           /\ transactions[i].type \cap IncomeWording # {}
           /\ normalizeTransactions(transactions)[i].isExpense
    /\ \E i \in 1..Len(transactions) :
           /\ parseAmountToPaise(transactions[i].amount) > 0
           /\ transactions[i].type \cap ExpenseWording # {}
           /\ transactions[i].type \cap IncomeWording # {}
           /\ ~normalizeTransactions(transactions)[i].isExpense

----------------------------------------------------------------------------
(* Ordering and aggregation claims *)

\* The fixed type priority, lowest first.
TypeOrder ==
    << "overspend", "missing_budget", "rising_trend", "savings_opportunity",
       "drop_trend", "inactive", "summary" >>

TypeRank(type) == CHOOSE k \in 1..Len(TypeOrder) : TypeOrder[k] = type

OfType(suggestions, type) == SelectSeq(suggestions, LAMBDA s : s.type = type)

\* The suggestions of the rendered call in the order the rules pushed them.
EmittedInView ==
    EmittedSuggestions(view.forecast, normalizeTransactions(view.transactions),
                       OptsOf(view.props.rules))

Summaries(suggestions) == { i \in 1..Len(suggestions) : suggestions[i].type = "summary" }

\* C16: every result of generateSuggestions, for any input including empty
\* input, contains exactly one suggestion of type summary, and it is the last
\* element of the sequence.
C16_OneSummaryLast ==
    view.called =>
        /\ Len(view.suggestions) >= 1
        /\ Summaries(view.suggestions) = { Len(view.suggestions) }

\* A summary that the rules pushed last and the sort kept behind others.
C16_Witness ==
    /\ view.called
    /\ Len(view.suggestions) >= 3
    /\ view.suggestions[Len(view.suggestions)].type = "summary"
    /\ view.suggestions[1].type # "inactive"

\* The normalized records of the rendered call.
NormalizedInView == normalizeTransactions(view.transactions)

\* The amounts of the normalized expenses with month key mk and category cat.
SpendAmounts(mk, cat) ==
    LET hits == SelectSeq(NormalizedInView,
                          LAMBDA n : n.isExpense /\ n.monthKey = mk /\ n.category = cat)
    IN  [i \in 1..Len(hits) |-> hits[i].amountPaise]

\* The amounts of the normalized expenses whose month key is in the window.
WindowSpendAmounts ==
    LET hits == SelectSeq(NormalizedInView,
                          LAMBDA n : n.isExpense /\ n.monthKey \in Range(view.forecast.months))
    IN  [i \in 1..Len(hits) |-> hits[i].amountPaise]

\* Everything reported in any series of the forecast, added up.
AllSeriesSum ==
    SumSeq([c \in 1..Len(view.forecast.categories) |->
              SumSeq(view.forecast.perCategory[view.forecast.categories[c]].history)])

\* C17: for every month m of the window and every category c, the history
\* amount reported by generateForecasts is the sum of the amounts of exactly
\* the normalized transactions that are expenses with MonthKey m and category
\* c; income, null MonthKeys and months outside the window contribute nothing.
C17_HistoryIsExpenseSum ==
    view.called =>
        /\ \A cat \in Range(view.forecast.categories) :
               /\ Len(view.forecast.perCategory[cat].history) = Len(view.forecast.months)
               /\ \A k \in 1..Len(view.forecast.months) :
                      view.forecast.perCategory[cat].history[k]
                          = SumSeq(SpendAmounts(view.forecast.months[k], cat))
        /\ AllSeriesSum = SumSeq(WindowSpendAmounts)

\* An income record inside the window next to an expense that is counted.
C17_Witness ==
    /\ view.called
    /\ AllSeriesSum > 0
    /\ \E i \in 1..Len(NormalizedInView) :
           /\ ~NormalizedInView[i].isExpense
           /\ NormalizedInView[i].amountPaise > 0
           /\ NormalizedInView[i].monthKey \in Range(view.forecast.months)

\* Month k of the window, added up over the categories of the forecast.
SummedOverCategories(k) ==
    SumSeq([c \in 1..Len(view.forecast.categories) |->
              view.forecast.perCategory[view.forecast.categories[c]].history[k]])

\* The per-category forecasts added up.
SumOfCategoryForecasts ==
    SumSeq([c \in 1..Len(view.forecast.categories) |->
              view.forecast.perCategory[view.forecast.categories[c]].forecast])

\* C18: for every month of the window, total.history is the sum over all
\* categories of that month's per-category history amounts, and
\* total.forecast is the rounded EWMA of that summed series, not the sum of
\* the per-category forecasts.
C18_TotalSummedThenSmoothed ==
    view.called =>
        LET summed == [k \in 1..Len(view.forecast.months) |-> SummedOverCategories(k)]
        IN  /\ view.forecast.total.history = summed
            /\ view.forecast.total.forecast
                   = RatRound(Ewma(EffectiveAlpha(view.props.alpha), summed))

\* Two categories whose forecasts do not add up to the total forecast.
C18_Witness ==
    /\ view.called
    /\ Len(view.forecast.categories) >= 2
    /\ view.forecast.total.forecast # SumOfCategoryForecasts

----------------------------------------------------------------------------
(* Amount parsing claims *)

\* The value of a numeric text in thousandths of a major unit.
Thousandths(raw) == raw.sign * (raw.whole * 1000 + raw.milli)

\* Math.round(value * 100) and Math.round(value) of that value.
RoundedHundredfold(raw) == (Thousandths(raw) + 5) \div 10
RoundedValue(raw) == (Thousandths(raw) + 500) \div 1000

NumericText(raw) == raw.kind = "str" /\ raw.ok

\* C19: parseAmountToPaise of a numeric text returns round(value * 100)
\* when the text has a decimal point or |value| < 1,000,000 and round(value)
\* for larger integral texts; the threshold is exactly 1,000,000, so '999999'
\* is converted and '1000000' is not.
C19_MajorUnitThreshold ==
    \A i \in 1..Len(parseCalls) :
        NumericText(parseCalls[i].raw) =>
            parseCalls[i].paise =
                IF parseCalls[i].raw.dot \/ Abs(Thousandths(parseCalls[i].raw)) < 1000000 * 1000
                THEN RoundedHundredfold(parseCalls[i].raw)
                ELSE RoundedValue(parseCalls[i].raw)

\* '999999' has been converted to 99999900 and '1000000' left at 1000000.
C19_Witness ==
    /\ \E i \in 1..Len(parseCalls) :
           /\ parseCalls[i].raw = StrAmt(1, 999999, 0, FALSE)
           /\ parseCalls[i].paise = 99999900
    /\ \E i \in 1..Len(parseCalls) :
           /\ parseCalls[i].raw = StrAmt(1, 1000000, 0, FALSE)
           /\ parseCalls[i].paise = 1000000

----------------------------------------------------------------------------
(* Empty input claims *)

AllZero(s) == \A k \in 1..Len(s) : s[k] = 0

\* C20: with no transactions and no budgets, generateForecasts returns a
\* well-formed result whose perCategory holds exactly one category,
\* 'Uncategorized', with an all-zero history of monthsBack entries and
\* forecast 0, and whose total forecast is 0; perCategory is never empty for
\* any input.
C20_EmptyInputDefaultCategory ==
    view.called =>
        /\ DOMAIN view.forecast.perCategory # {}
        /\ (view.transactions = <<>> /\ view.budgets = <<>>) =>
               /\ DOMAIN view.forecast.perCategory = {"Uncategorized"}
               /\ Len(view.forecast.perCategory["Uncategorized"].history)
                      = EffectiveMonthsBack(view.props.monthsBack)
               /\ Len(view.forecast.months) = EffectiveMonthsBack(view.props.monthsBack)
               /\ AllZero(view.forecast.perCategory["Uncategorized"].history)
               /\ view.forecast.perCategory["Uncategorized"].forecast = 0
               /\ AllZero(view.forecast.total.history)
               /\ view.forecast.total.forecast = 0

\* A call with nothing to forecast from, over a window of several months.
C20_Witness ==
    /\ view.called
    /\ view.transactions = <<>>
    /\ view.budgets = <<>>
    /\ Len(view.forecast.months) >= 2
    /\ DOMAIN view.forecast.perCategory = {"Uncategorized"}

----------------------------------------------------------------------------
(* Malformed record and rule claims *)

\* A raw amount that is a text from which no number can be read.
UnparseableAmount(raw) == raw.kind = "str" /\ ~raw.ok

\* The records of the rendered call whose amount can be read.
ParseableInView ==
    SelectSeq(view.transactions, LAMBDA t : ~UnparseableAmount(t.amount))

\* C21: a raw record whose amount cannot be parsed is skipped during
\* normalization: it yields no normalized transaction and adds neither an
\* amount nor a category to the forecast and suggestion results.
C21_UnparseableAmountSkipped ==
    view.called =>
        /\ Len(normalizeTransactions(view.transactions)) = Len(ParseableInView)
        /\ view.forecast =
               generateForecasts(ParseableInView, view.budgets, view.props.monthsBack,
                                 view.props.alpha, view.props.referenceDate, view.now)
        /\ view.suggestions =
               generateSuggestions(ParseableInView, view.budgets, view.props.monthsBack,
                                   view.props.alpha, view.props.referenceDate,
                                   view.props.rules, view.now)

\* The suggestions of the rendered call of one type for one category.
SuggestedFor(type, category) ==
    SelectSeq(view.suggestions, LAMBDA s : s.type = type /\ s.category = category)

\* The next-month budget the forecast reports for a category, 0 for none.
NextMonthBudget(category) ==
    IF category \in DOMAIN view.forecast.budgetsNextMonth
    THEN view.forecast.budgetsNextMonth[category] ELSE 0

\* C22: generateSuggestions emits a missing_budget suggestion for a category
\* exactly when that category has no positive next-month budget and its
\* forecast F is positive; the suggestion has recommendedLimitPaise =
\* round(F * (1 + safetyBufferPct / 100)) and confidence 0.6 (60 hundredths),
\* and a category never receives both an overspend and a missing_budget
\* suggestion.
C22_MissingBudgetRule ==
    view.called =>
        /\ \A i \in 1..Len(view.suggestions) :
               view.suggestions[i].type = "missing_budget"
                   => view.suggestions[i].category \in DOMAIN view.forecast.perCategory
        /\ \A cat \in DOMAIN view.forecast.perCategory :
               LET F == view.forecast.perCategory[cat].forecast
                   missing == SuggestedFor("missing_budget", cat)
                   buffer == OptsOf(view.props.rules).safetyBufferPct
               IN  /\ (missing # <<>>) <=> (~(NextMonthBudget(cat) > 0) /\ F > 0)
                   /\ Len(missing) <= 1
                   /\ \A k \in 1..Len(missing) :
                          /\ missing[k].recommendedLimitPaise
                                 = (2 * F * (100 + buffer) + 100) \div 200
                          /\ missing[k].confidence = 60
                   /\ ~(missing # <<>> /\ SuggestedFor("overspend", cat) # <<>>)

\* A buffered limit suggested for one category while another has a budget.
C22_Witness ==
    /\ view.called
    /\ \E cat \in DOMAIN view.forecast.perCategory :
           /\ SuggestedFor("missing_budget", cat) # <<>>
           /\ SuggestedFor("missing_budget", cat)[1].recommendedLimitPaise
                  > view.forecast.perCategory[cat].forecast
    /\ \E cat \in DOMAIN view.forecast.perCategory :
           /\ NextMonthBudget(cat) > 0
           /\ view.forecast.perCategory[cat].forecast > 0

\* Whether the last month of a series is at least pct percent above (pct > 0)
\* or at least -pct percent below (pct < 0) the average of the series.
LastAboveAverageBy(history, pct) ==
    100 * history[Len(history)] * Len(history) >= (100 + pct) * SumSeq(history)
LastBelowAverageBy(history, pct) ==
    100 * history[Len(history)] * Len(history) <= (100 - pct) * SumSeq(history)

\* C23: for every category with at least 2 months of history,
\* generateSuggestions emits a rising_trend suggestion exactly when the last
\* month is at least 25% above the historical average, a drop_trend
\* suggestion exactly when it is at least 50% below it, and no trend
\* suggestion otherwise; a category never gets both, and with monthsBack = 1
\* no trend suggestion is emitted.
C23_TrendRule ==
    view.called =>
        \A cat \in DOMAIN view.forecast.perCategory :
            LET history == view.forecast.perCategory[cat].history
                rising == SuggestedFor("rising_trend", cat)
                drop == SuggestedFor("drop_trend", cat)
            IN  /\ ~(rising # <<>> /\ drop # <<>>)
                /\ Len(history) < 2 => (rising = <<>> /\ drop = <<>>)
                /\ (Len(history) >= 2 /\ SumSeq(history) > 0) =>
                       /\ (rising # <<>>) <=> LastAboveAverageBy(history, 25)
                       /\ (drop # <<>>) <=> LastBelowAverageBy(history, 50)
                /\ (Len(history) >= 2 /\ SumSeq(history) = 0) =>
                       (rising = <<>> /\ drop = <<>>)

\* The categories whose forecast is strictly larger than that of category cat.
LargerForecasts(cat) ==
    { other \in DOMAIN view.forecast.perCategory :
        view.forecast.perCategory[other].forecast > view.forecast.perCategory[cat].forecast }

\* C24: for every input and every numeric topSavingsCategories value N,
\* generateSuggestions emits at most N savings_opportunity suggestions (none
\* for N below 1), only for categories with the largest positive forecasts,
\* each with meta.cutPct <= 25, meta.cutAmount > 0 and recommendedLimitPaise
\* = forecast - cutAmount.
C24_SavingsRule ==
    view.called =>
        LET N == OptsOf(view.props.rules).topSavingsCategories
            saves == OfType(view.suggestions, "savings_opportunity")
        IN  /\ Len(saves) <= Max(0, N)
            /\ \A k \in 1..Len(saves) :
                   /\ saves[k].category \in DOMAIN view.forecast.perCategory
                   /\ saves[k].meta.forecast
                          = view.forecast.perCategory[saves[k].category].forecast
                   /\ saves[k].meta.forecast > 0
                   /\ Cardinality(LargerForecasts(saves[k].category)) < Max(0, N)
                   /\ saves[k].meta.cutPct <= 25
                   /\ saves[k].meta.cutAmount > 0
                   /\ saves[k].recommendedLimitPaise
                          = saves[k].meta.forecast - saves[k].meta.cutAmount

----------------------------------------------------------------------------
(* Ledger frame and settlement claims *)

\* The expenses kept from before a step are the same objects with the same
\* fields after it: a longer list extends the old one, a shorter list is the
\* old one with one entry taken out, a list of the same length is the old one.
KeptExpensesUnchanged ==
    \/ expenses' = expenses
    \/ /\ Len(expenses') = Len(expenses) + 1
       /\ SubSeq(expenses', 1, Len(expenses)) = expenses
    \/ /\ Len(expenses') = Len(expenses) - 1
       /\ \E k \in 1..Len(expenses) :
              expenses' = [i \in 1..(Len(expenses) - 1) |->
                             IF i < k THEN expenses[i] ELSE expenses[i + 1]]

KeptPeopleUnchanged ==
    \/ people' = people
    \/ /\ Len(people') = Len(people) + 1
       /\ SubSeq(people', 1, Len(people)) = people

PaymentSenders == { groupTransactions[i].from : i \in 1..Len(groupTransactions) }
PaymentReceivers == { groupTransactions[i].to : i \in 1..Len(groupTransactions) }

\* C26: every payment returned by simplifyDebts has a strictly positive
\* amount, its `from` is a person whose input balance is below -0.005 and its
\* `to` is a person whose input balance is above 0.005, so no payment has
\* from = to and no person appears both as a payer and as a payee in one
\* settlement.
C26_PaymentsWellFormed ==
    /\ \A i \in 1..Len(groupTransactions) :
           LET t == groupTransactions[i]
           IN  /\ t.amount > 0
               /\ HasKey(groupBalances, t.from)
               /\ HasKey(groupBalances, t.to)
               /\ \A x \in Range(groupBalances) :
                      /\ x.id = t.from => (~x.nan /\ x.v < -5)
                      /\ x.id = t.to => (~x.nan /\ x.v > 5)
               /\ t.from # t.to
    /\ PaymentSenders \cap PaymentReceivers = {}

\* A settlement in which two members pay the same third one.
C26_Witness ==
    /\ Len(groupTransactions) >= 2
    /\ groupTransactions[1].from # groupTransactions[2].from
    /\ groupTransactions[1].to = groupTransactions[2].to
    /\ groupTransactions[2].amount > 0

----------------------------------------------------------------------------
(* Budget proposal claims *)

\* The floor listed for a category, 400 for a category without one.
ListedFloor(cat) ==
    IF cat \in {"Food", "Shopping"} THEN 1500
    ELSE IF cat \in {"Transport", "Entertainment"} THEN 800
    ELSE IF cat \in {"Utilities", "Healthcare"} THEN 1000
    ELSE 400

SevenDefaults ==
    {"Food", "Transport", "Shopping", "Entertainment", "Utilities", "Healthcare", "Other"}

\* C27: every proposal returned by computeAIBudgets, in every mode and with or
\* without totalCap, has a limit that is a multiple of 50 and is at least the
\* floor of its category (400 for a category without a listed floor); a
\* default category with no in-window transactions gets exactly its floor
\* when no totalCap is supplied.
C27_FloorAndFifty ==
    apiOut.kind = "budgets" =>
        /\ \A i \in 1..Len(apiOut.budgets) :
               /\ apiOut.budgets[i].limit % 50 = 0
               /\ apiOut.budgets[i].limit >= ListedFloor(apiOut.budgets[i].category)
        /\ ~apiOut.meta.totalCap.present =>
               \A cat \in SevenDefaults :
                   SampleIndexes(apiOut.expenses, apiOut.now, apiOut.meta.window, cat) = {}
                       => LimitsFor(apiOut.budgets, cat) = {ListedFloor(cat)}

\* A capped run in which one proposal was scaled down to its floor and
\* another stays above its own.
C27_Witness ==
    /\ apiOut.kind = "budgets"
    /\ apiOut.meta.totalCap.present
    /\ apiOut.meta.totalCap.v > 0
    /\ \E i \in 1..Len(apiOut.budgets) :
           /\ SampleIndexes(apiOut.expenses, apiOut.now, apiOut.meta.window,
                            apiOut.budgets[i].category) # {}
           /\ apiOut.budgets[i].limit > ListedFloor(apiOut.budgets[i].category)
    /\ \E i \in 1..Len(apiOut.budgets) :
           apiOut.budgets[i].limit = ListedFloor(apiOut.budgets[i].category)

PositiveCap == apiOut.kind = "budgets" /\ apiOut.meta.totalCap.present /\ apiOut.meta.totalCap.v > 0

SumOfLimits(items) == SumSeq([i \in 1..Len(items) |-> items[i].limit])

\* The proposals of the same call before any fitting to a cap.
Unscaled ==
    computeAIBudgets(apiOut.expenses, apiOut.now, apiOut.meta.window, apiOut.meta.mode, NoCap)

----------------------------------------------------------------------------
(* Identity claims *)

\* The id strings of the rendered suggestions, in order.
IdsInView == [i \in 1..Len(view.suggestions) |-> IdText(view.suggestions[i].id)]

\* C29: within one result of generateSuggestions the suggestion ids are
\* pairwise distinct, for every input: each rule emits at most one suggestion
\* per category, and ids of different types never coincide.
C29_IdsDistinct ==
    view.called =>
        /\ \A i, j \in 1..Len(IdsInView) : i # j => IdsInView[i] # IdsInView[j]
        /\ \A i, j \in 1..Len(view.suggestions) :
               (/\ i # j
                /\ view.suggestions[i].type = view.suggestions[j].type)
                   => view.suggestions[i].category # view.suggestions[j].category

\* One category with suggestions of three types, and one type suggested for
\* two categories.
C29_Witness ==
    /\ view.called
    /\ \E cat \in DOMAIN view.forecast.perCategory :
           Cardinality({ view.suggestions[i].type :
                           i \in { k \in 1..Len(view.suggestions) :
                                     view.suggestions[k].category = cat } }) >= 3
    /\ \E i, j \in 1..Len(view.suggestions) :
           /\ view.suggestions[i].type = view.suggestions[j].type
           /\ view.suggestions[i].category # view.suggestions[j].category

----------------------------------------------------------------------------
(* Concurrency claims *)

ExpenseIds(d) == { d.expenses[i].id : i \in 1..Len(d.expenses) }
GroupExpenseIds(d, g) == { d.groupExpenses[g][i].id : i \in 1..Len(d.groupExpenses[g]) }

\* A deleteExpense of the given id completed after position k.
DeletedLater(k, id) ==
    \E j \in (k + 1)..Len(finished) :
        finished[j].call.op = "deleteExpense" /\ finished[j].call.id = id

\* The postExpense that created the given id completed after position k.
PostedLater(k, id) ==
    \E j \in (k + 1)..Len(finished) :
        finished[j].call.op = "postExpense" /\ ItemId(finished[j].no) = id

\* The positions at which a generateBudgets call completed.
BudgetRuns == { k \in 1..Len(finished) : finished[k].call.op = "generateBudgets" }

\* C30: under every interleaving of concurrently started postExpense,
\* deleteExpense, postGroupExpense and generateBudgets calls of the mock API,
\* no completed update is lost: each call loads, modifies and saves the db in
\* one uninterrupted step after its delay, so once all calls have finished
\* the stored db contains every posted expense that was not deleted by a
\* later-completing call.
C30_NoLostUpdate ==
    pending = {} =>
        /\ \A k \in 1..Len(finished) :
               /\ (finished[k].call.op = "postExpense"
                   /\ ~DeletedLater(k, ItemId(finished[k].no)))
                      => ItemId(finished[k].no) \in ExpenseIds(db)
               /\ finished[k].call.op = "postGroupExpense"
                      => ItemId(finished[k].no) \in GroupExpenseIds(db, finished[k].call.group)
               /\ (finished[k].call.op = "deleteExpense"
                   /\ ~PostedLater(k, finished[k].call.id))
                      => finished[k].call.id \notin ExpenseIds(db)
        /\ BudgetRuns # {} =>
               db.budgets = finished[CHOOSE k \in BudgetRuns :
                                       \A other \in BudgetRuns : other <= k].saved.budgets

\* Three calls that completed in another order than they were started in,
\* among them a post, a group post and a budget run.
C30_Witness ==
    /\ pending = {}
    /\ Len(finished) = 3
    /\ finished[1].no > finished[3].no
    /\ \E k \in 1..3 : finished[k].call.op = "postExpense"
    /\ \E k \in 1..3 : finished[k].call.op = "postGroupExpense"
    /\ BudgetRuns # {}

====
